---------------------------- MODULE Spec2Model ----------------------------
(***************************************************************************)
(* A model of the memory repository of claude-onedrive-memory: the content *)
(* store (one markdown blob per memory), the summary index (index.json),   *)
(* and the operations that keep the two in step: createMemory,             *)
(* updateMemory, deleteMemory, the id resolution of the commands, the      *)
(* project/expiry filter, the ranking of searchMemories, and cleanup.      *)
(*                                                                         *)
(* Text is a sequence of one-character strings, so that substring search,  *)
(* trimming, slugs and id prefixes are computed, not assumed.              *)
(***************************************************************************)
EXTENDS Integers, Sequences, FiniteSets, TLC

(***************************************************************************)
(* Bounds of the model.                                                    *)
(***************************************************************************)
\* how many memories are ever created in one behaviour
MaxCreates == 2
\* the clock stops here
MaxTime == 2
\* clock ticks in one calendar day
DayLen == 1

(***************************************************************************)
(* Program constants.                                                      *)
(***************************************************************************)
TitleMax == 100
SnippetMax == 150
SlugMax == 50
DefaultSearchLimit == 10

(***************************************************************************)
(* Text helpers (JavaScript string methods).                               *)
(***************************************************************************)
Letters ==
  {"a","b","c","d","e","f","g","h","i","j","k","l","m",
   "n","o","p","q","r","s","t","u","v","w","x","y","z"}

Digits == {"0","1","2","3","4","5","6","7","8","9"}

\* the characters \s matches among those the model uses
Spaces == {" ", "\n"}

LowerChar(c) ==
  CASE c = "A" -> "a"
    [] c = "B" -> "b"
    [] c = "M" -> "m"
    [] c = "U" -> "u"
    [] c = "X" -> "x"
    [] c = "Z" -> "z"
    [] OTHER -> c

toLowerCase(s) == [i \in 1..Len(s) |-> LowerChar(s[i])]

substring(s, n) == IF Len(s) <= n THEN s ELSE SubSeq(s, 1, n)

RECURSIVE TrimLeft(_)
TrimLeft(s) ==
  IF s # <<>> /\ Head(s) \in Spaces THEN TrimLeft(Tail(s)) ELSE s

RECURSIVE TrimRight(_)
TrimRight(s) ==
  IF s # <<>> /\ s[Len(s)] \in Spaces
  THEN TrimRight(SubSeq(s, 1, Len(s) - 1))
  ELSE s

trim(s) == TrimRight(TrimLeft(s))

startsWith(s, p) == Len(p) <= Len(s) /\ SubSeq(s, 1, Len(p)) = p

\* s.includes(p): p occurs in s as a contiguous substring
includes(s, p) ==
  \E i \in 0..(Len(s) - Len(p)) : SubSeq(s, i + 1, i + Len(p)) = p

\* content.split('\n')[0]
RECURSIVE FirstLine(_)
FirstLine(s) ==
  IF s = <<>> \/ Head(s) = "\n" THEN <<>> ELSE <<Head(s)>> \o FirstLine(Tail(s))

\* content.split('\n').slice(1).join(' ')
RestLines(s) ==
  LET n == Len(FirstLine(s))
      rest == IF n = Len(s) THEN <<>> ELSE SubSeq(s, n + 2, Len(s))
  IN [i \in 1..Len(rest) |-> IF rest[i] = "\n" THEN " " ELSE rest[i]]

\* content.split('\n').join(' ')
AllLines(s) == [i \in 1..Len(s) |-> IF s[i] = "\n" THEN " " ELSE s[i]]

RECURSIVE DropWhile(_, _)
DropWhile(s, set) ==
  IF s # <<>> /\ Head(s) \in set THEN DropWhile(Tail(s), set) ELSE s

\* firstLine.replace(/^#+\s*/, '')
StripHeading(s) ==
  IF s # <<>> /\ Head(s) = "#" THEN DropWhile(DropWhile(s, {"#"}), Spaces) ELSE s

UntitledMemory ==
  <<"U","n","t","i","t","l","e","d"," ","M","e","m","o","r","y">>

extractTitle(content) ==
  LET title == substring(StripHeading(trim(FirstLine(content))), TitleMax)
  IN IF title = <<>> THEN UntitledMemory ELSE title

createSnippet(content) ==
  LET joined == IF content # <<>> /\ Head(content) = "#"
                THEN RestLines(content)
                ELSE AllLines(content)
      body == trim(joined)
  IN substring(body, SnippetMax)
       \o (IF Len(body) > SnippetMax THEN <<".", ".", ".">> ELSE <<>>)

\* .replace(/[^a-z0-9]+/g, '-'): every run of other characters becomes one '-'
RECURSIVE Dashed(_, _)
Dashed(s, inRun) ==
  IF s = <<>> THEN <<>>
  ELSE IF Head(s) \in Letters \cup Digits
       THEN <<Head(s)>> \o Dashed(Tail(s), FALSE)
       ELSE (IF inRun THEN <<>> ELSE <<"-">>) \o Dashed(Tail(s), TRUE)

\* .replace(/^-|-$/g, '')
StripDashes(s) ==
  LET a == IF s # <<>> /\ Head(s) = "-" THEN Tail(s) ELSE s
  IN IF a # <<>> /\ a[Len(a)] = "-" THEN SubSeq(a, 1, Len(a) - 1) ELSE a

slugify(text) == substring(StripDashes(Dashed(toLowerCase(text), FALSE)), SlugMax)

(***************************************************************************)
(* The on-disk record: gray-matter front matter and the body.              *)
(***************************************************************************)
\* gray-matter's newline(): the body is written with a final line break
newline(s) == IF s # <<>> /\ s[Len(s)] = "\n" THEN s ELSE s \o <<"\n">>

formatMemory(memory) ==
  [id |-> memory.id, category |-> memory.category, tags |-> memory.tags,
   created |-> memory.created, updated |-> memory.updated,
   body |-> newline(memory.content)]

parseMemory(blob) ==
  [id |-> blob.id, category |-> blob.category, tags |-> blob.tags,
   title |-> extractTitle(blob.body),
   created |-> blob.created, updated |-> blob.updated,
   content |-> trim(blob.body)]

(***************************************************************************)
(* State.                                                                  *)
(***************************************************************************)
VARIABLES
  index,    \* index.json: the sequence of index entries
  files,    \* the content store: storage path -> blob
  now,      \* the clock
  used,     \* the ids uuidv4 has produced so far
  project,  \* the project the caller's directory belongs to (<<>>: none)
  returned, \* a memory create returned (at most one is watched), until it is
            \* updated or deleted
  last,     \* the last request and its answer
  pending   \* the repository operation each concurrent caller is in, and how
            \* far it has got

vars == <<index, files, now, used, project, returned, last, pending>>

\* the callers that may run repository operations at the same time
Callers == {1, 2}

\* a caller that is in no operation
Idle ==
  [op |-> "idle", stage |-> "idle", id |-> <<>>, path |-> <<>>, blob |-> <<>>,
   before |-> <<>>, version |-> <<>>, since |-> {}]

\* the ids uuidv4 may produce: distinct strings of one length
IdChars == {"a", "b"}
Ids == {<<"a","a">>, <<"a","b">>, <<"b","a">>}

\* a request and its answer: the operation, the id string or query passed,
\* whether it succeeded, and the ids it acted on or reports
Answer(op, arg, ok, out) ==
  [op |-> op, arg |-> arg, ok |-> ok, out |-> out, loaded |-> <<>>, memories |-> <<>>]

\* the answer of a query: the entries it selected, the ids it called getMemory
\* on, and the ids of the memories it got
Found(op, arg, r) ==
  [op |-> op, arg |-> arg, ok |-> TRUE, out |-> [i \in 1..Len(r.entries) |-> r.entries[i].id],
   loaded |-> r.loaded, memories |-> [i \in 1..Len(r.memories) |-> r.memories[i].id]]

NoFiles == [p \in {} |-> <<>>]

PathOf(category, time, slug) ==
  [category |-> category, date |-> time \div DayLen, slug |-> slug]

WriteFile(fs, path, blob) ==
  [p \in DOMAIN fs \cup {path} |-> IF p = path THEN blob ELSE fs[p]]

DeleteFile(fs, path) == [p \in DOMAIN fs \ {path} |-> fs[p]]


(***************************************************************************)
(* Project scope and time-to-live of a new memory.                         *)
(***************************************************************************)
NoProject == <<>>

\* the project a new memory is scoped to
ScopeOf(global) == IF global THEN NoProject ELSE project

DigitValue(c) ==
  CASE c = "0" -> 0 [] c = "1" -> 1 [] c = "2" -> 2 [] c = "3" -> 3
    [] c = "4" -> 4 [] c = "5" -> 5 [] c = "6" -> 6 [] c = "7" -> 7
    [] c = "8" -> 8 [] c = "9" -> 9

RECURSIVE ParseInt(_)
ParseInt(s) ==
  IF s = <<>> THEN 0
  ELSE 10 * ParseInt(SubSeq(s, 1, Len(s) - 1)) + DigitValue(s[Len(s)])

TtlUnits == {"d", "D", "w", "W", "m", "M", "y", "Y"}

\* days in one unit of a time-to-live
UnitDays(u) ==
  CASE u \in {"d", "D"} -> 1
    [] u \in {"w", "W"} -> 7
    [] u \in {"m", "M"} -> 30
    [] u \in {"y", "Y"} -> 365

\* a test that asks for no digit before the unit: /^\d*[dDwWmMyY]$/
TtlUnitOnly(ttl) ==
  /\ Len(ttl) >= 1
  /\ ttl[Len(ttl)] \in TtlUnits
  /\ \A i \in 1..(Len(ttl) - 1) : ttl[i] \in Digits

\* /^\d+[dDwWmMyY]$/.test(ttl)
TtlWellFormed(ttl) ==
  /\ Len(ttl) >= 2
  /\ ttl[Len(ttl)] \in TtlUnits
  /\ \A i \in 1..(Len(ttl) - 1) : ttl[i] \in Digits

\* the expiry of a memory created now: none without a ttl
ExpiryOf(ttl) ==
  IF ttl = <<>> THEN {}
  ELSE {now + ParseInt(SubSeq(ttl, 1, Len(ttl) - 1)) * UnitDays(ttl[Len(ttl)]) * DayLen}

PriorityOf(priority) == IF priority = "" THEN "normal" ELSE priority

(***************************************************************************)
(* memory.ts: the repository.                                              *)
(***************************************************************************)
\* positions of the entries with this id, in index order
Positions(entries, id) == {i \in 1..Len(entries) : entries[i].id = id}

\* index.memories.findIndex((m) => m.id === id), 0 for -1
findIndexById(entries, id) ==
  IF Positions(entries, id) = {} THEN 0
  ELSE CHOOSE i \in Positions(entries, id) : \A j \in Positions(entries, id) : i <= j

RemoveAt(seq, i) == SubSeq(seq, 1, i - 1) \o SubSeq(seq, i + 1, Len(seq))

\* what createMemory writes: the blob at its path, then the entry at the index's end
createMemory(idx, fs, id, category, content, tags, options) ==
  LET title == extractTitle(content)
      slug == slugify(title)
      memory == [id |-> id, category |-> category, tags |-> tags, title |-> title,
                 created |-> now, updated |-> now, content |-> content]
      filePath == PathOf(category, now, slug)
      indexEntry == [id |-> id, category |-> category, tags |-> tags, title |-> title,
                     path |-> filePath, created |-> now, updated |-> now,
                     snippet |-> createSnippet(content),
                     projectId |-> ScopeOf(options.global),
                     priority |-> PriorityOf(options.priority),
                     expiresAt |-> ExpiryOf(options.ttl),
                     relatedTo |-> <<>>]
  IN [memory |-> memory,
      files |-> WriteFile(fs, filePath, formatMemory(memory)),
      index |-> Append(idx, indexEntry)]

NoMemory == [id |-> <<>>]

\* a getMemory that answers from the index entry when the blob is missing
getMemoryFromIndex(idx, fs, id) ==
  LET i == findIndexById(idx, id)
  IN IF i = 0 THEN NoMemory
     ELSE IF idx[i].path \notin DOMAIN fs
     THEN [id |-> idx[i].id, category |-> idx[i].category, tags |-> idx[i].tags,
           title |-> idx[i].title, created |-> idx[i].created,
           updated |-> idx[i].updated, content |-> idx[i].snippet]
     ELSE parseMemory(fs[idx[i].path])

\* getMemory(id): the parsed blob at the entry's path, or NoMemory
getMemory(idx, fs, id) ==
  LET i == findIndexById(idx, id)
  IN IF i = 0 THEN NoMemory
     ELSE IF idx[i].path \notin DOMAIN fs THEN NoMemory
     ELSE parseMemory(fs[idx[i].path])

\* an updateMemory that writes the new time to the blob and not to the index
updateMemoryStaleIndex(idx, fs, id, updates) ==
  LET i == findIndexById(idx, id)
  IN IF i = 0 \/ (i # 0 /\ idx[i].path \notin DOMAIN fs)
     THEN [ok |-> FALSE, index |-> idx, files |-> fs, memory |-> NoMemory]
     ELSE
       LET entry == idx[i]
           old == parseMemory(fs[entry.path])
           content == IF updates.hasContent THEN updates.content ELSE old.content
           title == IF updates.hasContent THEN extractTitle(updates.content) ELSE old.title
           tags == IF updates.hasTags THEN updates.tags ELSE old.tags
           memory == [old EXCEPT !.content = content, !.title = title,
                                 !.tags = tags, !.updated = now]
       IN [ok |-> TRUE,
           files |-> WriteFile(fs, entry.path, formatMemory(memory)),
           index |-> [idx EXCEPT ![i] =
                        [entry EXCEPT !.title = title, !.tags = tags,
                                      !.snippet = createSnippet(content)]],
           memory |-> memory]

\* updateMemory(id, updates): ok is FALSE where the code returns null
updateMemory(idx, fs, id, updates) ==
  LET i == findIndexById(idx, id)
  IN IF i = 0 \/ (i # 0 /\ idx[i].path \notin DOMAIN fs)
     THEN [ok |-> FALSE, index |-> idx, files |-> fs, memory |-> NoMemory]
     ELSE
       LET entry == idx[i]
           old == parseMemory(fs[entry.path])
           content == IF updates.hasContent THEN updates.content ELSE old.content
           title == IF updates.hasContent THEN extractTitle(updates.content) ELSE old.title
           tags == IF updates.hasTags THEN updates.tags ELSE old.tags
           memory == [old EXCEPT !.content = content, !.title = title,
                                 !.tags = tags, !.updated = now]
       IN [ok |-> TRUE,
           files |-> WriteFile(fs, entry.path, formatMemory(memory)),
           index |-> [idx EXCEPT ![i] =
                        [entry EXCEPT !.title = title, !.tags = tags, !.updated = now,
                                      !.snippet = createSnippet(content)]],
           memory |-> memory]

\* a deleteMemory that drops the index entry and leaves the blob in the store
deleteMemoryKeepingBlob(idx, fs, id) ==
  LET i == findIndexById(idx, id)
  IN IF i = 0
     THEN [ok |-> FALSE, index |-> idx, files |-> fs]
     ELSE [ok |-> TRUE, index |-> RemoveAt(idx, i), files |-> fs]

\* deleteMemory(id): ok is the boolean the code returns
deleteMemory(idx, fs, id) ==
  LET i == findIndexById(idx, id)
  IN IF i = 0
     THEN [ok |-> FALSE, index |-> idx, files |-> fs]
     ELSE [ok |-> TRUE, index |-> RemoveAt(idx, i), files |-> DeleteFile(fs, idx[i].path)]

\* listMemories(category): <<>> stands for no category given
listMemories(idx, category) ==
  IF category # <<>> THEN SelectSeq(idx, LAMBDA m : m.category = category) ELSE idx

(***************************************************************************)
(* memory.ts: relations between memories (link, unlink, merge).            *)
(***************************************************************************)
\* the relatedTo of the memory of this id, <<>> if there is no such entry
RelatedOf(idx, id) ==
  IF findIndexById(idx, id) = 0 THEN <<>> ELSE idx[findIndexById(idx, id)].relatedTo

Contains(seq, x) == \E i \in 1..Len(seq) : seq[i] = x

\* an id added to a list whether or not the list holds it
AddAlways(seq, x) == Append(seq, x)

\* an id added to a list that does not hold it yet
AddOnce(seq, x) == IF Contains(seq, x) THEN seq ELSE Append(seq, x)

RECURSIVE Union(_, _)
Union(seq, more) ==
  IF more = <<>> THEN seq ELSE Union(AddOnce(seq, Head(more)), Tail(more))

Without(seq, ids) == SelectSeq(seq, LAMBDA x : ~Contains(ids, x))

\* the memories getMemory yields for these ids, the missing ones left out
Load(idx, fs, ids) ==
  SelectSeq([i \in 1..Len(ids) |-> getMemory(idx, fs, ids[i])], LAMBDA m : m.id # <<>>)

\* getRelatedMemories(id): each id of relatedTo resolved with getMemory, the
\* ids that do not resolve skipped
getRelatedMemories(idx, fs, id) == Load(idx, fs, RelatedOf(idx, id))

\* the relations of the memory replaced in the outcome of an update
SetRelated(r, id, related) ==
  IF ~r.ok THEN r
  ELSE [r EXCEPT !.index = [r.index EXCEPT ![findIndexById(r.index, id)] =
                              [@ EXCEPT !.relatedTo = related]]]

\* update(id, {relatedTo}): the memory is rewritten with a new updated time
\* and its relations are replaced
updateRelated(idx, fs, id, related) ==
  SetRelated(updateMemory(idx, fs, id,
               [hasContent |-> FALSE, content |-> <<>>, hasTags |-> FALSE, tags |-> <<>>]),
             id, related)

\* the outcome of the two updates of a link or unlink
BothUpdated(r1, r2) == [ok |-> r1.ok /\ r2.ok, index |-> r2.index, files |-> r2.files]

\* the second memory gets the first's id, after the first's update
LinkSecond(r1, id1, id2) ==
  BothUpdated(r1, updateRelated(r1.index, r1.files, id2,
                                AddOnce(RelatedOf(r1.index, id2), id1)))

\* linkMemories(id1, id2): each id is added to the other's relatedTo if absent
linkMemories(idx, fs, id1, id2) ==
  IF Len(Load(idx, fs, <<id1, id2>>)) < 2
  THEN [ok |-> FALSE, index |-> idx, files |-> fs]
  ELSE LinkSecond(updateRelated(idx, fs, id1, AddOnce(RelatedOf(idx, id1), id2)), id1, id2)

\* the second memory loses the first's id, after the first's update
UnlinkSecond(r1, id1, id2) ==
  BothUpdated(r1, updateRelated(r1.index, r1.files, id2,
                                Without(RelatedOf(r1.index, id2), <<id1>>)))

\* unlinkMemories(id1, id2): each id is removed from the other's relatedTo;
\* a relation that is not there is no error
unlinkMemories(idx, fs, id1, id2) ==
  IF Len(Load(idx, fs, <<id1, id2>>)) < 2
  THEN [ok |-> FALSE, index |-> idx, files |-> fs]
  ELSE UnlinkSecond(updateRelated(idx, fs, id1, Without(RelatedOf(idx, id1), <<id2>>)),
                    id1, id2)

\* the content of a merge: the base's, then each other memory's under a
\* heading of its title
RECURSIVE MergedContent(_, _)
MergedContent(content, others) ==
  IF others = <<>> THEN content
  ELSE MergedContent(content \o <<"\n", "\n", "#", "#", " ">> \o Head(others).title
                       \o <<"\n", "\n">> \o Head(others).content,
                     Tail(others))

RECURSIVE MergedTags(_, _)
MergedTags(tags, others) ==
  IF others = <<>> THEN tags ELSE MergedTags(Union(tags, Head(others).tags), Tail(others))

RECURSIVE MergedRelated(_, _, _)
MergedRelated(idx, related, memories) ==
  IF memories = <<>> THEN related
  ELSE MergedRelated(idx, Union(related, RelatedOf(idx, Head(memories).id)),
                     Tail(memories))

\* deleteMemory on each of the memories in turn
RECURSIVE DeleteMerged(_, _)
DeleteMerged(others, st) ==
  IF others = <<>> THEN st
  ELSE LET r == deleteMemory(st.index, st.files, Head(others).id)
       IN DeleteMerged(Tail(others), [st EXCEPT !.index = r.index, !.files = r.files])

\* mergeMemories(ids): needs two memories that load; the first is the base,
\* which takes the content, tags and relations of all, the relations to the
\* merged memories left out; the others are deleted
mergeMemories(idx, fs, ids) ==
  LET memories == Load(idx, fs, ids)
      base == Head(memories)
      others == Tail(memories)
      r == updateMemory(idx, fs, base.id,
             [hasContent |-> TRUE, content |-> MergedContent(base.content, others),
              hasTags |-> TRUE, tags |-> MergedTags(base.tags, others)])
      i == findIndexById(idx, base.id)
      related == Without(MergedRelated(idx, <<>>, memories), ids)
      linked == [r.index EXCEPT ![i] = [@ EXCEPT !.relatedTo = related]]
  IN IF Len(memories) < 2 \/ ~r.ok
     THEN [ok |-> FALSE, index |-> idx, files |-> fs, id |-> <<>>]
     ELSE [DeleteMerged(others, [ok |-> TRUE, index |-> linked, files |-> r.files,
                                 id |-> base.id])
             EXCEPT !.ok = TRUE]

(***************************************************************************)
(* Id resolution of the commands (forget, update, link, related, merge).   *)
(***************************************************************************)
Matches(entries, id) ==
  {i \in 1..Len(entries) : entries[i].id = id \/ startsWith(entries[i].id, id)}

\* a resolution that takes the last matching entry instead of the first
findMatchLast(entries, id) ==
  IF Matches(entries, id) = {} THEN 0
  ELSE CHOOSE i \in Matches(entries, id) : \A j \in Matches(entries, id) : i >= j

\* entries.find((e) => e.id === id || e.id.startsWith(id)): a position, 0 for none
findMatch(entries, id) ==
  IF Matches(entries, id) = {} THEN 0
  ELSE CHOOSE i \in Matches(entries, id) : \A j \in Matches(entries, id) : i <= j


(***************************************************************************)
(* analytics.ts: the relationship graph from a root.                       *)
(***************************************************************************)
\* toVisit.push({ id: relatedId, depth }) for each related id not visited yet
Pushed(related, visited, depth) ==
  LET ids == SelectSeq(related, LAMBDA r : ~Contains(visited, r))
  IN [k \in 1..Len(ids) |-> [id |-> ids[k], depth |-> depth]]

\* the visited id has an entry: its node is added unless it has one, and its
\* related ids are queued; an id without an entry adds nothing
Expand(st, item, entries, i) ==
  IF i = 0 THEN st
  ELSE [st EXCEPT !.nodes = AddOnce(@, item.id),
                  !.toVisit = @ \o Pushed(entries[i].relatedTo, st.visited, item.depth + 1)]

\* a step of the loop that also visits an item whose depth is maxDepth + 1
VisitDeeper(entries, maxDepth, st, item) ==
  IF Contains(st.visited, item.id) \/ item.depth > maxDepth + 1 THEN st
  ELSE Expand([st EXCEPT !.visited = Append(@, item.id)], item, entries,
              findIndexById(entries, item.id))

\* one step of the loop on the item taken from the queue: skipped when
\* visited or deeper than maxDepth, visited otherwise
Visit(entries, maxDepth, st, item) ==
  IF Contains(st.visited, item.id) \/ item.depth > maxDepth THEN st
  ELSE Expand([st EXCEPT !.visited = Append(@, item.id)], item, entries,
              findIndexById(entries, item.id))

\* while (toVisit.length > 0): steps counts the items taken from the queue
RECURSIVE Traverse(_, _, _)
Traverse(entries, maxDepth, st) ==
  IF st.toVisit = <<>> THEN st
  ELSE Traverse(entries, maxDepth,
                Visit(entries, maxDepth,
                      [st EXCEPT !.toVisit = Tail(@), !.steps = @ + 1],
                      Head(st.toVisit)))

\* the edge lines of one visited id: one for each related id that is visited,
\* where both ends have a node
EdgesFrom(entries, st, id) ==
  LET to == SelectSeq(RelatedOf(entries, id),
                      LAMBDA r : /\ Contains(st.visited, r)
                                 /\ Contains(st.nodes, id)
                                 /\ Contains(st.nodes, r))
  IN [k \in 1..Len(to) |-> <<id, to[k]>>]

\* for (const id of visited): the edge lines, in the order visited
RECURSIVE Edges(_, _, _)
Edges(entries, st, ids) ==
  IF ids = <<>> THEN <<>>
  ELSE EdgesFrom(entries, st, Head(ids)) \o Edges(entries, st, Tail(ids))

\* what generateSubgraph renders of the traversal: the node lines, the edge
\* lines, and the count of its last line
Rendered(entries, st) ==
  [nodes |-> st.nodes, edges |-> Edges(entries, st, st.visited),
   count |-> Len(st.visited), steps |-> st.steps]

\* generateSubgraph(rootId, maxDepth)
generateSubgraph(entries, rootId, maxDepth) ==
  Rendered(entries,
           Traverse(entries, maxDepth,
                    [visited |-> <<>>, toVisit |-> <<[id |-> rootId, depth |-> 0]>>,
                     nodes |-> <<>>, steps |-> 0]))

(***************************************************************************)
(* Expiry, project scope, scoring, search and recall.                      *)
(***************************************************************************)
\* an isExpired that also counts the instant of expiry itself as expired
isExpiredAtExpiry(entry) == \E t \in entry.expiresAt : t <= now

\* isExpired(entry): expiresAt set and strictly before the current time
isExpired(entry) == \E t \in entry.expiresAt : t < now

IdsOf(entries) == [i \in 1..Len(entries) |-> entries[i].id]

\* the options of a query; <<>> stands for a category, tag list or project
\* id that is not given
QueryOptions(category, tags, limit, includeFullContent, includeGlobal, allProjects) ==
  [category |-> category, tags |-> tags, limit |-> limit,
   includeFullContent |-> includeFullContent, includeGlobal |-> includeGlobal,
   allProjects |-> allProjects, projectId |-> <<>>]

\* a filterByProject that lets every global entry through
filterByProjectAllGlobal(entries, options) ==
  LET live == SelectSeq(entries, LAMBDA e : ~isExpired(e))
      projectId == IF options.projectId # <<>> THEN options.projectId ELSE project
  IN IF options.allProjects THEN live
     ELSE SelectSeq(live, LAMBDA e : e.projectId = <<>> \/ e.projectId = projectId)

\* filterByProject(entries, options); includeExpired is never passed
filterByProject(entries, options) ==
  LET live == SelectSeq(entries, LAMBDA e : ~isExpired(e))
      projectId == IF options.projectId # <<>> THEN options.projectId ELSE project
  IN IF options.allProjects THEN live
     ELSE IF projectId = <<>> /\ ~options.includeGlobal THEN <<>>
     ELSE SelectSeq(live, LAMBDA e :
            IF e.projectId = <<>> THEN options.includeGlobal
            ELSE e.projectId = projectId)

\* lowerQuery.split(/\s+/).filter(Boolean): the words of the query, in order
RECURSIVE Words(_)
Words(s) ==
  LET t == TrimLeft(s)
      n == Len(t)
      k == IF \E i \in 1..n : t[i] \in Spaces
           THEN (CHOOSE i \in 1..n : t[i] \in Spaces /\ \A j \in 1..(i - 1) : t[j] \notin Spaces) - 1
           ELSE n
  IN IF t = <<>> THEN <<>>
     ELSE <<SubSeq(t, 1, k)>> \o Words(SubSeq(t, k + 1, n))

\* lowerText.split(word).length - 1: occurrences counted left to right, not
\* overlapping
RECURSIVE Occurrences(_, _)
Occurrences(text, word) ==
  IF Len(text) < Len(word) THEN 0
  ELSE IF SubSeq(text, 1, Len(word)) = word
       THEN 1 + Occurrences(SubSeq(text, Len(word) + 1, Len(text)), word)
       ELSE Occurrences(Tail(text), word)

Min(a, b) == IF a <= b THEN a ELSE b

RECURSIVE WordScore(_, _)
WordScore(lowerText, queryWords) ==
  IF queryWords = <<>> THEN 0
  ELSE (IF includes(lowerText, Head(queryWords))
        THEN 10 + Min(Occurrences(lowerText, Head(queryWords)) - 1, 5) * 2
        ELSE 0)
       + WordScore(lowerText, Tail(queryWords))

calculateScore(text, query) ==
  LET lowerText == toLowerCase(text)
      lowerQuery == toLowerCase(query)
  IN (IF includes(lowerText, lowerQuery) THEN 100 ELSE 0)
       + WordScore(lowerText, Words(lowerQuery))

\* tags.join(' ')
RECURSIVE join(_)
join(tags) ==
  IF tags = <<>> THEN <<>>
  ELSE IF Len(tags) = 1 THEN tags[1]
  ELSE tags[1] \o <<" ">> \o join(Tail(tags))

\* the score of an entry before its priority is applied, in twentieths:
\* title twice, snippet once, tags one and a half times, 20 for the category
RawScore(entry, query) ==
  40 * calculateScore(entry.title, query)
    + 20 * calculateScore(entry.snippet, query)
    + 30 * calculateScore(join(entry.tags), query)
    + (IF includes(toLowerCase(entry.category), toLowerCase(query)) THEN 400 ELSE 0)

\* a score that leaves the priority out
ScoreNoPriority(entry, query) == RawScore(entry, query)

\* the score searchMemories gives an entry, in twentieths: high priority
\* multiplies by 1.5 and adds 50, low priority multiplies by 0.7
Score(entry, query) ==
  IF entry.priority = "high" THEN (RawScore(entry, query) * 3) \div 2 + 1000
  ELSE IF entry.priority = "low" THEN (RawScore(entry, query) * 7) \div 10
  ELSE RawScore(entry, query)

\* an insertion that puts a result before the results of equal score
RECURSIVE InsertBeforeEqual(_, _)
InsertBeforeEqual(sorted, r) ==
  IF sorted = <<>> THEN <<r>>
  ELSE IF Head(sorted).score > r.score
       THEN <<Head(sorted)>> \o InsertBeforeEqual(Tail(sorted), r)
       ELSE <<r>> \o sorted

\* results.sort((a, b) => b.score - a.score): descending, equal scores keep
\* their order
RECURSIVE InsertRanked(_, _)
InsertRanked(sorted, r) ==
  IF sorted = <<>> THEN <<r>>
  ELSE IF Head(sorted).score >= r.score
       THEN <<Head(sorted)>> \o InsertRanked(Tail(sorted), r)
       ELSE <<r>> \o sorted

RECURSIVE SortRanked(_)
SortRanked(rs) ==
  IF rs = <<>> THEN <<>>
  ELSE InsertRanked(SortRanked(SubSeq(rs, 1, Len(rs) - 1)), rs[Len(rs)])

\* tags.some((tag) => entry.tags.includes(tag.toLowerCase()))
HasSomeTag(entry, tags) ==
  \E i \in 1..Len(tags) : \E j \in 1..Len(entry.tags) : entry.tags[j] = toLowerCase(tags[i])

\* the memories getMemory yields for these entries, the missing ones left out
Hydrate(idx, fs, entries) ==
  LET got == [i \in 1..Len(entries) |-> getMemory(idx, fs, entries[i].id)]
  IN SelectSeq(got, LAMBDA m : m.id # <<>>)

\* searchMemories(query, options): the ranked entries, and the memories loaded
searchMemories(idx, fs, query, options) ==
  LET listed == listMemories(idx, options.category)
      scoped == filterByProject(listed, options)
      tagged == IF options.tags # <<>>
                THEN SelectSeq(scoped, LAMBDA e : HasSomeTag(e, options.tags))
                ELSE scoped
      scored == [i \in 1..Len(tagged) |->
                   [entry |-> tagged[i], score |-> Score(tagged[i], query)]]
      results == SortRanked(SelectSeq(scored, LAMBDA r : r.score > 0))
      limitedResults == substring(results, options.limit)
      entries == [i \in 1..Len(limitedResults) |-> limitedResults[i].entry]
  IN [entries |-> entries,
      loaded |-> IF options.includeFullContent THEN IdsOf(entries) ELSE <<>>,
      memories |-> IF options.includeFullContent THEN Hydrate(idx, fs, entries) ELSE <<>>]

\* entries.sort by updated, most recent first, then the first limit of them
MostRecent(entries, limit) ==
  LET keyed == [i \in 1..Len(entries) |-> [entry |-> entries[i], score |-> entries[i].updated]]
      sorted == SortRanked(keyed)
  IN [i \in 1..Len(substring(sorted, limit)) |-> sorted[i].entry]

recallByCategory(idx, fs, category, limit, projectOptions) ==
  LET entries == MostRecent(filterByProject(listMemories(idx, category), projectOptions), limit)
  IN [entries |-> entries, loaded |-> IdsOf(entries), memories |-> Hydrate(idx, fs, entries)]

recallRecent(idx, fs, limit, projectOptions) ==
  LET entries == MostRecent(filterByProject(listMemories(idx, <<>>), projectOptions), limit)
  IN [entries |-> entries, loaded |-> IdsOf(entries), memories |-> Hydrate(idx, fs, entries)]

(***************************************************************************)
(* batch.ts: tag and delete operations over many memories.                 *)
(***************************************************************************)
BatchSearchLimit == 1000
StaleDays == 90

\* what a batch operation works on and reports: the store, the counters and
\* one item per entry handled
BatchResult(idx, fs) ==
  [index |-> idx, files |-> fs, processed |-> 0, succeeded |-> 0, failed |-> 0,
   items |-> <<>>]

\* result.items.push({id, title, success}) with its counter
PushItem(st, entry, success) ==
  [st EXCEPT !.items = Append(@, [id |-> entry.id, success |-> success]),
             !.succeeded = @ + (IF success THEN 1 ELSE 0),
             !.failed = @ + (IF success THEN 0 ELSE 1)]

\* the entries a tag operation selects: by search, by category, or all
BatchEntries(idx, fs, query, category) ==
  IF query # <<>>
  THEN searchMemories(idx, fs, query,
         QueryOptions(category, <<>>, BatchSearchLimit, FALSE, TRUE, FALSE)).entries
  ELSE listMemories(idx, category)

\* currentTags.includes(tag)
IncludesTag(tags, tag) == \E i \in 1..Len(tags) : tags[i] = tag

TagUpdate(tags) == [hasContent |-> FALSE, content |-> <<>>, hasTags |-> TRUE, tags |-> tags]

\* one pass of a tag loop over an entry whose tags become newTags; broken
\* holds the ids for which the storage throws
TagItem(st, entry, newTags, broken) ==
  IF entry.id \in broken THEN PushItem(st, entry, FALSE)
  ELSE LET r == updateMemory(st.index, st.files, entry.id, TagUpdate(newTags))
       IN PushItem([st EXCEPT !.index = r.index, !.files = r.files], entry, r.ok)

\* a loop that gives up at the first entry that fails
RECURSIVE AddTagEachUntilFailure(_, _, _, _, _)
AddTagEachUntilFailure(entries, tag, dryRun, broken, st) ==
  IF entries = <<>> \/ st.failed > 0 THEN st
  ELSE LET entry == Head(entries)
           counted == [st EXCEPT !.processed = @ + 1]
           after == IF dryRun \/ IncludesTag(entry.tags, tag)
                    THEN PushItem(counted, entry, TRUE)
                    ELSE TagItem(counted, entry, Append(entry.tags, tag), broken)
       IN AddTagEachUntilFailure(Tail(entries), tag, dryRun, broken, after)

\* the loop of batchAddTag
RECURSIVE AddTagEach(_, _, _, _, _)
AddTagEach(entries, tag, dryRun, broken, st) ==
  IF entries = <<>> THEN st
  ELSE LET entry == Head(entries)
           counted == [st EXCEPT !.processed = @ + 1]
           after == IF dryRun \/ IncludesTag(entry.tags, tag)
                    THEN PushItem(counted, entry, TRUE)
                    ELSE TagItem(counted, entry, Append(entry.tags, tag), broken)
       IN AddTagEach(Tail(entries), tag, dryRun, broken, after)

batchAddTag(idx, fs, tag, query, category, dryRun, broken) ==
  AddTagEach(BatchEntries(idx, fs, query, category), tag, dryRun, broken,
             BatchResult(idx, fs))

\* the loop of batchRemoveTag
RECURSIVE RemoveTagEach(_, _, _, _, _)
RemoveTagEach(entries, tag, dryRun, broken, st) ==
  IF entries = <<>> THEN st
  ELSE LET entry == Head(entries)
           counted == [st EXCEPT !.processed = @ + 1]
           after == IF dryRun
                    THEN PushItem(counted, entry, TRUE)
                    ELSE TagItem(counted, entry,
                                 SelectSeq(entry.tags, LAMBDA t : t # tag), broken)
       IN RemoveTagEach(Tail(entries), tag, dryRun, broken, after)

batchRemoveTag(idx, fs, tag, query, category, dryRun, broken) ==
  RemoveTagEach(SelectSeq(BatchEntries(idx, fs, query, category),
                          LAMBDA e : IncludesTag(e.tags, tag)),
                tag, dryRun, broken, BatchResult(idx, fs))

\* the stale filter of bulkDelete: no expiresAt, updated before 90 days ago
StaleEntry(e) == e.expiresAt = {} /\ e.updated < now - StaleDays * DayLen

\* the filters of a bulk delete; <<>> stands for no category or no query
BulkFilters(category, expired, stale, query) ==
  [category |-> category, expired |-> expired, stale |-> stale, query |-> query]

\* the entries bulkDelete selects
BulkEntries(idx, fs, f) ==
  LET listed == listMemories(idx, f.category)
      old == IF f.expired THEN SelectSeq(listed, isExpired) ELSE listed
      idle == IF f.stale THEN SelectSeq(old, StaleEntry) ELSE old
      searchIds == IF f.query # <<>>
                   THEN IdsOf(searchMemories(idx, fs, f.query,
                          QueryOptions(f.category, <<>>, BatchSearchLimit,
                                       FALSE, TRUE, FALSE)).entries)
                   ELSE <<>>
  IN IF f.query # <<>>
     THEN SelectSeq(idle, LAMBDA e : \E i \in 1..Len(searchIds) : searchIds[i] = e.id)
     ELSE idle

\* a loop that deletes on a dry run too
RECURSIVE BulkDeleteEachEager(_, _, _, _)
BulkDeleteEachEager(entries, dryRun, broken, st) ==
  IF entries = <<>> THEN st
  ELSE LET entry == Head(entries)
           counted == [st EXCEPT !.processed = @ + 1]
           r == deleteMemory(counted.index, counted.files, entry.id)
           after == IF entry.id \in broken THEN PushItem(counted, entry, FALSE)
                    ELSE PushItem([counted EXCEPT !.index = r.index, !.files = r.files],
                                  entry, r.ok)
       IN BulkDeleteEachEager(Tail(entries), dryRun, broken, after)

\* the loop of bulkDelete
RECURSIVE BulkDeleteEach(_, _, _, _)
BulkDeleteEach(entries, dryRun, broken, st) ==
  IF entries = <<>> THEN st
  ELSE LET entry == Head(entries)
           counted == [st EXCEPT !.processed = @ + 1]
           r == deleteMemory(counted.index, counted.files, entry.id)
           after == IF dryRun THEN PushItem(counted, entry, TRUE)
                    ELSE IF entry.id \in broken THEN PushItem(counted, entry, FALSE)
                    ELSE PushItem([counted EXCEPT !.index = r.index, !.files = r.files],
                                  entry, r.ok)
       IN BulkDeleteEach(Tail(entries), dryRun, broken, after)

bulkDelete(idx, fs, f, dryRun, broken) ==
  BulkDeleteEach(BulkEntries(idx, fs, f), dryRun, broken, BatchResult(idx, fs))

(***************************************************************************)
(* Requests.                                                               *)
(***************************************************************************)
Priorities == {"high", "normal", "low"}

\* the watched memory is dropped once it is updated or deleted
Unwatch(set, ids) == {m \in set : \A i \in 1..Len(ids) : ids[i] # m.id}

\* the first memory create returns is watched
Watch(set, memory) == IF set = {} THEN {memory} ELSE set

Rejected(op, arg) ==
  /\ last' = Answer(op, arg, FALSE, <<>>)
  /\ UNCHANGED <<index, files, now, used, project, returned, pending>>

\* the call of createMemory that every remember entry point ends in
Store(op, category, content, tags, global, priority, ttl) ==
  /\ Cardinality(used) < MaxCreates
  /\ \E id \in Ids \ used :
       LET r == createMemory(index, files, id, category, content, tags,
                             [global |-> global, priority |-> priority, ttl |-> ttl])
       IN /\ index' = r.index
          /\ files' = r.files
          /\ used' = used \cup {id}
          /\ returned' = Watch(returned, r.memory)
          /\ last' = Answer(op, [ttl |-> ttl, priority |-> priority], TRUE, <<id>>)
  /\ UNCHANGED <<now, project, pending>>

\* remember (commands/remember.ts) and handleRemember (index.ts)
Remember(category, content, tags, global, priority, ttl) ==
  IF priority # "" /\ priority \notin Priorities
  THEN Rejected("remember", [ttl |-> ttl, priority |-> priority])
  ELSE IF ttl # <<>> /\ ~TtlWellFormed(ttl)
  THEN Rejected("remember", [ttl |-> ttl, priority |-> priority])
  ELSE Store("remember", category, content, tags, global, priority, ttl)

\* the memory_remember tool (mcp-server.ts): the schema admits the three
\* priorities only, the handler tests the ttl
MemoryRemember(category, content, tags, global, priority, ttl) ==
  IF priority # "" /\ priority \notin Priorities
  THEN Rejected("memory_remember", [ttl |-> ttl, priority |-> priority])
  ELSE IF ttl # <<>> /\ ~TtlWellFormed(ttl)
  THEN Rejected("memory_remember", [ttl |-> ttl, priority |-> priority])
  ELSE Store("memory_remember", category, content, tags, global, priority, ttl)

\* update (commands/update.ts): an empty content counts as none given
Update(id, content, hasTags, tags) ==
  LET m == findMatch(index, id)
  IN IF content = <<>> /\ ~hasTags
     THEN Rejected("update", id)
     ELSE IF m = 0
     THEN Rejected("update", id)
     ELSE LET r == updateMemory(index, files, index[m].id,
                                [hasContent |-> content # <<>>, content |-> content,
                                 hasTags |-> hasTags, tags |-> tags])
          IN /\ index' = r.index
             /\ files' = r.files
             /\ returned' = IF r.ok THEN Unwatch(returned, <<index[m].id>>) ELSE returned
             /\ last' = Answer("update", id, r.ok, <<index[m].id>>)
             /\ UNCHANGED <<now, used, project, pending>>

\* forget (commands/forget.ts)
ForgetMemory(id) ==
  LET m == findMatch(index, id)
  IN IF m = 0
     THEN Rejected("forget", id)
     ELSE LET r == deleteMemory(index, files, index[m].id)
          IN /\ index' = r.index
             /\ files' = r.files
             /\ returned' = Unwatch(returned, <<index[m].id>>)
             /\ last' = Answer("forget", id, r.ok, <<index[m].id>>)
             /\ UNCHANGED <<now, used, project, pending>>

\* a direct call of deleteMemory(id), as cleanup and bulkDelete make it
Delete(id) ==
  LET r == deleteMemory(index, files, id)
  IN /\ index' = r.index
     /\ files' = r.files
     /\ returned' = Unwatch(returned, <<id>>)
     /\ last' = Answer("delete", id, r.ok, <<id>>)
     /\ UNCHANGED <<now, used, project, pending>>

\* the loop of cleanup: deleteMemory on each id in turn, counting the
\* successes; broken holds the ids for which the storage throws, and the
\* loop, which catches nothing, ends at the first of them
RECURSIVE DeleteEach(_, _, _)
DeleteEach(ids, broken, st) ==
  IF ids = <<>> THEN st
  ELSE IF Head(ids) \in broken THEN [st EXCEPT !.thrown = TRUE]
  ELSE LET r == deleteMemory(st.index, st.files, Head(ids))
       IN DeleteEach(Tail(ids), broken,
                     [st EXCEPT !.index = r.index, !.files = r.files,
                                !.deleted = st.deleted + (IF r.ok THEN 1 ELSE 0)])

\* the answer of cleanup: the count it reports, none (-1) when it failed
Cleaned(op, broken, ok, ids, deleted) ==
  [op |-> op, arg |-> [broken |-> broken], ok |-> ok, out |-> ids, loaded |-> <<>>,
   memories |-> <<>>, deleted |-> deleted]

\* cleanup where the storage throws on the blobs of the broken ids
CleanupUnder(dryRun, broken) ==
  LET entries == listMemories(index, <<>>)
      expiredEntries == SelectSeq(entries, isExpired)
  IN IF expiredEntries = <<>> \/ dryRun
     THEN /\ last' = Cleaned(IF dryRun THEN "cleanup-dry" ELSE "cleanup", broken, TRUE,
                             IdsOf(expiredEntries), 0)
          /\ UNCHANGED <<index, files, now, used, project, returned, pending>>
     ELSE LET r == DeleteEach(IdsOf(expiredEntries), broken,
                              [index |-> index, files |-> files, deleted |-> 0,
                               thrown |-> FALSE])
          IN /\ index' = r.index
             /\ files' = r.files
             /\ returned' = Unwatch(returned, IdsOf(expiredEntries))
             /\ last' = Cleaned("cleanup", broken, ~r.thrown, IdsOf(expiredEntries),
                                IF r.thrown THEN -1 ELSE r.deleted)
             /\ UNCHANGED <<now, used, project, pending>>

\* cleanup (commands/cleanup.ts), handleCleanup, memory_cleanup
Cleanup(dryRun) == CleanupUnder(dryRun, {})

\* the answer of a batch operation: the ids of its items and its report
BatchAnswer(op, arg, st) ==
  [op |-> op, arg |-> arg, ok |-> TRUE,
   out |-> [i \in 1..Len(st.items) |-> st.items[i].id],
   loaded |-> <<>>, memories |-> <<>>,
   report |-> [processed |-> st.processed, succeeded |-> st.succeeded,
               failed |-> st.failed, items |-> st.items]]

\* a batch operation's effect on the store and its answer
Batched(op, arg, dryRun, st) ==
  /\ index' = st.index
  /\ files' = st.files
  /\ returned' = IF dryRun THEN returned
                 ELSE Unwatch(returned, [i \in 1..Len(st.items) |-> st.items[i].id])
  /\ last' = BatchAnswer(op, arg, st)
  /\ UNCHANGED <<now, used, project, pending>>

\* a dryRun argument is "true", "false" or "unset"; the value it has where
\* the code reads it, given what an unset one counts as
DryRunOr(dryRun, default) == IF dryRun = "unset" THEN default ELSE dryRun = "true"

TagArg(tag, query, category, dryRun, broken) ==
  [tag |-> tag, query |-> query, category |-> category, dryRun |-> dryRun,
   broken |-> broken]

\* the memory_tag tool
MemoryTag(tag, query, category, dryRun, broken) ==
  Batched("memory_tag", TagArg(tag, query, category, dryRun, broken),
          DryRunOr(dryRun, FALSE),
          batchAddTag(index, files, tag, query, category, DryRunOr(dryRun, FALSE), broken))

\* the memory_untag tool
MemoryUntag(tag, query, category, dryRun, broken) ==
  Batched("memory_untag", TagArg(tag, query, category, dryRun, broken),
          DryRunOr(dryRun, FALSE),
          batchRemoveTag(index, files, tag, query, category, DryRunOr(dryRun, FALSE),
                         broken))

\* the batch_tag tool: operation "add" adds, any other removes
BatchTag(tag, operation, query, category, dryRun, broken) ==
  LET arg == [tag |-> tag, operation |-> operation, query |-> query,
              category |-> category, dryRun |-> dryRun, broken |-> broken]
      dry == DryRunOr(dryRun, FALSE)
  IN IF operation = "add"
     THEN Batched("batch_tag", arg, dry,
                  batchAddTag(index, files, tag, query, category, dry, broken))
     ELSE Batched("batch_tag", arg, dry,
                  batchRemoveTag(index, files, tag, query, category, dry, broken))

\* a check that lets a request without filters through
NoFilterNever(f) == FALSE

\* !expired && !stale && !query && !category
NoFilter(f) == ~f.expired /\ ~f.stale /\ f.query = <<>> /\ f.category = <<>>

BulkArg(f, dryRun, broken) == [filters |-> f, dryRun |-> dryRun, broken |-> broken]

\* the memory_bulk_delete tool: dryRun is passed on as it came
MemoryBulkDelete(f, dryRun, broken) ==
  IF NoFilter(f) THEN Rejected("memory_bulk_delete", BulkArg(f, dryRun, broken))
  ELSE Batched("memory_bulk_delete", BulkArg(f, dryRun, broken),
               DryRunOr(dryRun, FALSE),
               bulkDelete(index, files, f, DryRunOr(dryRun, FALSE), broken))

\* the batch_delete tool: dryRun ?? true
BatchDelete(f, dryRun, broken) ==
  IF NoFilter(f) THEN Rejected("batch_delete", BulkArg(f, dryRun, broken))
  ELSE Batched("batch_delete", BulkArg(f, dryRun, broken),
               DryRunOr(dryRun, TRUE),
               bulkDelete(index, files, f, DryRunOr(dryRun, TRUE), broken))

\* the answer of a link or unlink of the memories of these ids
Linked(op, arg, ids, r) ==
  /\ index' = r.index
  /\ files' = r.files
  /\ returned' = IF r.ok THEN Unwatch(returned, ids) ELSE returned
  /\ last' = Answer(op, arg, r.ok, ids)
  /\ UNCHANGED <<now, used, project, pending>>

\* the two entries the id strings match are linked, or unlinked
LinkMatched(op, arg, unlink, id1, id2) ==
  Linked(op, arg, <<id1, id2>>,
         IF unlink THEN unlinkMemories(index, files, id1, id2)
         ELSE linkMemories(index, files, id1, id2))

\* handleLink and memory_link: link two memories, or unlink them
Link(id1, id2, unlink) ==
  IF findMatch(index, id1) = 0 \/ findMatch(index, id2) = 0
  THEN Rejected(IF unlink THEN "unlink" ELSE "link", <<id1, id2>>)
  ELSE LinkMatched(IF unlink THEN "unlink" ELSE "link", <<id1, id2>>, unlink,
                   index[findMatch(index, id1)].id, index[findMatch(index, id2)].id)

\* the ids the given strings resolve to, <<>> if one of them matches nothing
MatchedIds(entries, ids) ==
  IF \E i \in 1..Len(ids) : findMatch(entries, ids[i]) = 0 THEN <<>>
  ELSE [i \in 1..Len(ids) |-> entries[findMatch(entries, ids[i])].id]

\* validMemories.length >= 2
EnoughToMerge(validMemories) == Len(validMemories) >= 2

\* handleMerge and memory_merge, without a new title
Merge(ids) ==
  LET matchedIds == MatchedIds(index, ids)
  IN IF Len(ids) < 2 \/ matchedIds = <<>>
     THEN Rejected("merge", ids)
     ELSE IF ~EnoughToMerge(Load(index, files, matchedIds))
     THEN Rejected("merge", ids)
     ELSE LET r == mergeMemories(index, files, matchedIds)
          IN /\ index' = r.index
             /\ files' = r.files
             /\ returned' = IF r.ok THEN Unwatch(returned, matchedIds) ELSE returned
             /\ last' = Answer("merge", ids, r.ok, matchedIds)
             /\ UNCHANGED <<now, used, project, pending>>

\* handleRelated and memory_related: the related memories of the entry the
\* id string matches; fails when that memory itself does not load
Related(id) ==
  LET m == findMatch(index, id)
  IN IF m = 0 \/ (m # 0 /\ getMemory(index, files, index[m].id) = NoMemory)
     THEN Rejected("related", id)
     ELSE /\ last' = Answer("related", id, TRUE,
                            IdsOf(getRelatedMemories(index, files, index[m].id)))
          /\ UNCHANGED <<index, files, now, used, project, returned, pending>>

\* the answer of the graph tool: the nodes and edges rendered
Drawn(arg, g) ==
  [op |-> "graph", arg |-> arg, ok |-> TRUE, out |-> g.nodes, loaded |-> <<>>,
   memories |-> <<>>, edges |-> g.edges, count |-> g.count, steps |-> g.steps]

\* generateRelationshipGraph(fromId, maxDepth) with a root, as the
\* memory_graph tool calls it: an error when the id string matches nothing
Graph(fromId, maxDepth) ==
  IF findMatch(index, fromId) = 0
  THEN Rejected("graph", [fromId |-> fromId, maxDepth |-> maxDepth])
  ELSE /\ last' = Drawn([fromId |-> fromId, maxDepth |-> maxDepth],
                        generateSubgraph(listMemories(index, <<>>),
                                         index[findMatch(index, fromId)].id, maxDepth))
       /\ UNCHANGED <<index, files, now, used, project, returned, pending>>

\* a search with a query (recall with a query, memory_recall, search)
Search(query, options) ==
  /\ last' = Found("search", [query |-> query, options |-> options],
                   searchMemories(index, files, query, options))
  /\ UNCHANGED <<index, files, now, used, project, returned, pending>>

\* recall with a category and no query
RecallByCategory(category, options) ==
  /\ last' = Found("recall-category", [query |-> <<>>, options |-> options],
                   recallByCategory(index, files, category, options.limit, options))
  /\ UNCHANGED <<index, files, now, used, project, returned, pending>>

\* recall with neither a query nor a category
RecallRecent(options) ==
  /\ last' = Found("recall-recent", [query |-> <<>>, options |-> options],
                   recallRecent(index, files, options.limit, options))
  /\ UNCHANGED <<index, files, now, used, project, returned, pending>>

\* list (commands/list.ts): the entries of the category, of the current
\* project if projectOnly, of the project named if one is named
list(idx, category, projectOnly, projectId) ==
  SelectSeq(listMemories(idx, category),
            LAMBDA e : /\ projectOnly => e.projectId = project
                       /\ projectId # <<>> => e.projectId = projectId)

\* the list command and the memory_list tool
List(category, projectOnly, projectId) ==
  /\ last' = Answer("list", [category |-> category, projectOnly |-> projectOnly,
                              projectId |-> projectId],
                     TRUE, IdsOf(list(index, category, projectOnly, projectId)))
  /\ UNCHANGED <<index, files, now, used, project, returned, pending>>

\* a read of the resource memory://list
ReadList ==
  /\ last' = Answer("memory://list", <<>>, TRUE, IdsOf(listMemories(index, <<>>)))
  /\ UNCHANGED <<index, files, now, used, project, returned, pending>>

\* the caller moves to another working directory: detectProjectContext
\* reports the project of the directory it is called in
ChangeDirectory(p) ==
  /\ p # project
  /\ project' = p
  /\ UNCHANGED <<index, files, now, used, returned, last, pending>>

\* a long time passes at once
Wait(days) ==
  /\ now <= MaxTime
  /\ now' = now + days * DayLen
  /\ UNCHANGED <<index, files, used, project, returned, last, pending>>

\* time passes
Tick ==
  /\ now < MaxTime
  /\ now' = now + 1
  /\ UNCHANGED <<index, files, used, project, returned, last, pending>>

(***************************************************************************)
(* Inputs.                                                                 *)
(***************************************************************************)
CatTask == <<"t","a","s","k">>
CatNote == <<"n","o","t","e">>

ContentA == <<"a">>
ContentC == <<"#", " ", "b", "\n", "c">>
Contents == {ContentA, ContentC}

TagX == <<"x">>

ProjA == <<"p">>
ProjB == <<"q">>
Projects == {ProjA, ProjB, NoProject}

\* a title that is a phrase of eight words, and no body
ContentPhrase ==
  <<"#", " ", "a", " ", "b", " ", "c", " ", "d", " ", "e", " ", "f", " ", "g", " ", "h">>
\* a body that holds seven of those words six times each, under another title
ContentWords ==
  <<"#", " ", "Z", "\n">>
    \o <<"a","a","a","a","a","a", "b","b","b","b","b","b", "c","c","c","c","c","c">>
    \o <<"d","d","d","d","d","d", "e","e","e","e","e","e", "f","f","f","f","f","f">>
    \o <<"g","g","g","g","g","g">>

QueryPhrase == <<"a", " ", "b", " ", "c", " ", "d", " ", "e", " ", "f", " ", "g", " ", "h">>
QueryAB == <<"a", " ", "b">>
QueryA == <<"a">>
QueryC == <<"c">>

TtlDay == <<"1", "d">>

\* the strings a caller may pass for an id: a prefix of two ids, a prefix of
\* one, and a whole id
IdInputs == {<<"a">>, <<"b">>, <<"a", "b">>}

\* what an update may carry: new content, new tags, or neither
UpdateInputs ==
  {[content |-> ContentC, hasTags |-> FALSE, tags |-> <<>>],
   [content |-> <<>>, hasTags |-> TRUE, tags |-> <<TagX>>],
   [content |-> <<>>, hasTags |-> FALSE, tags |-> <<>>]}

(***************************************************************************)
(* Spec: the repository under create, update, forget and delete.           *)
(***************************************************************************)
Init ==
  /\ index = <<>>
  /\ files = NoFiles
  /\ now = 0
  /\ used = {}
  /\ project = ProjA
  /\ returned = {}
  /\ pending = [c \in Callers |-> Idle]
  /\ last = Answer("init", <<>>, TRUE, <<>>)

Next ==
  \/ \E t \in Contents : Remember(CatTask, t, <<>>, FALSE, "", <<>>)
  \/ \E id \in IdInputs, u \in UpdateInputs : Update(id, u.content, u.hasTags, u.tags)
  \/ \E id \in IdInputs : ForgetMemory(id)
  \/ \E id \in Ids : Delete(id)

Spec == Init /\ [][Next]_vars

(***************************************************************************)
(* Properties of the repository.                                           *)
(***************************************************************************)
\* what an index entry should say, going by the blob at its path
EntryMatchesBlob(e) ==
  /\ e.path \in DOMAIN files
  /\ LET m == parseMemory(files[e.path])
     IN /\ e.id = m.id
        /\ e.title = m.title
        /\ e.tags = m.tags
        /\ e.updated = m.updated
        /\ e.snippet = createSnippet(m.content)

\* C1: after any sequence of successful creates, updates and deletes, every
\* index entry's id, title, tags, updated timestamp and snippet equal the
\* values of, or derived from, the memory in the blob at the entry's path.
IndexMatchesContent == \A i \in 1..Len(index) : EntryMatchesBlob(index[i])

\* C2: a memory M that create returned and that was neither updated nor
\* deleted since is what get(M.id) returns, in id, content, tags and
\* category, whatever other memories were created in between.
CreateThenGet ==
  \A M \in returned :
    LET g == getMemory(index, files, M.id)
    IN /\ g.id = M.id
       /\ g.content = M.content
       /\ g.tags = M.tags
       /\ g.category = M.category

PathsOf(entries, id) == {entries[i].path : i \in Positions(entries, id)}

\* C3: delete(id) of an id in the index removes its index entry and its
\* content blob and returns true; of an id not in the index it returns false
\* and changes neither the index nor the content store.
DeleteContract ==
  [][\A id \in Ids :
       Delete(id) =>
         IF Positions(index, id) # {}
         THEN /\ last'.ok
              /\ Positions(index', id) = {}
              /\ Len(index') = Len(index) - 1
              /\ \A p \in PathsOf(index, id) : p \notin DOMAIN files'
         ELSE /\ ~last'.ok
              /\ index' = index
              /\ files' = files]_vars

\* a delete of a present id has happened: its entry and its blob are gone
DeleteWitness ==
  /\ last.op = "delete"
  /\ last.ok
  /\ Len(index) = 1
  /\ Positions(index, last.arg) = {}
  /\ DOMAIN files = {index[1].path}

\* the entry the command should act on: the one whose id is the string,
\* otherwise the first in index order whose id starts with it, 0 for none
ExactAt(entries, s) == {i \in 1..Len(entries) : entries[i].id = s}
PrefixAt(entries, s) == {i \in 1..Len(entries) : startsWith(entries[i].id, s)}
First(set) == CHOOSE i \in set : \A j \in set : i <= j
Resolved(entries, s) ==
  IF ExactAt(entries, s) # {} THEN First(ExactAt(entries, s))
  ELSE IF PrefixAt(entries, s) # {} THEN First(PrefixAt(entries, s))
  ELSE 0

ScopeOptions ==
  {QueryOptions(<<>>, <<>>, DefaultSearchLimit, TRUE, g, a) : g \in BOOLEAN, a \in BOOLEAN}

NextScope ==
  \/ \E g \in BOOLEAN : Remember(CatTask, ContentA, <<>>, g, "", <<>>)
  \/ \E p \in Projects : ChangeDirectory(p)
  \/ \E o \in ScopeOptions : Search(QueryA, o)
  \/ \E o \in ScopeOptions : RecallByCategory(CatTask, o)
  \/ \E o \in ScopeOptions : RecallRecent(o)

SpecScope == Init /\ [][NextScope]_vars

\* the entry is among the entries the answer reports
Shown(ans, e) == \E k \in 1..Len(ans.out) : ans.out[k] = e.id

\* of the candidates, all of which a query would otherwise return: with
\* allProjects every one is shown; without it a global one is shown exactly
\* when includeGlobal holds, and a scoped one only if it is of project proj
ScopedRight(ans, candidates, proj, o) ==
  \A i \in 1..Len(candidates) :
    LET e == candidates[i]
    IN IF o.allProjects THEN Shown(ans, e)
       ELSE IF e.projectId = <<>> THEN Shown(ans, e) <=> o.includeGlobal
       ELSE Shown(ans, e) => e.projectId = proj

\* C5: with allProjects unset, search and recall return a project-scoped
\* entry only if its projectId is the current project's, and a global entry
\* exactly when includeGlobal holds, whatever the current project is, also
\* when there is none; with allProjects set no entry is dropped for its
\* project. The candidates are the unexpired entries of the category asked
\* for (for search: with a positive score), no more of them than the limit.
ScopeContract ==
  [][/\ (last'.op = "search" /\ Search(QueryA, last'.arg.options)) =>
          ScopedRight(last', SelectSeq(index, LAMBDA e : Score(e, QueryA) > 0),
                      project, last'.arg.options)
     /\ (last'.op = "recall-category" /\ RecallByCategory(CatTask, last'.arg.options)) =>
          ScopedRight(last', SelectSeq(index, LAMBDA e : e.category = CatTask),
                      project, last'.arg.options)
     /\ (last'.op = "recall-recent" /\ RecallRecent(last'.arg.options)) =>
          ScopedRight(last', index, project, last'.arg.options)]_vars

\* a recall without allProjects, with no project detected, has returned the
\* global entry and left out the entry of project p
ScopeWitness ==
  /\ last.op = "recall-recent"
  /\ ~last.arg.options.allProjects
  /\ last.arg.options.includeGlobal
  /\ project = NoProject
  /\ Len(index) = 2
  /\ index[1].projectId = ProjA
  /\ index[2].projectId = <<>>
  /\ last.out = <<index[2].id>>

(***************************************************************************)
(* SpecLife: memories with and without a time-to-live, queried and cleaned *)
(* up as time passes.                                                      *)
(***************************************************************************)
Request(category, content, tags, global, priority, ttl) ==
  [category |-> category, content |-> content, tags |-> tags, global |-> global,
   priority |-> priority, ttl |-> ttl]

LifeRequests ==
  {Request(CatTask, ContentA, <<TagX>>, FALSE, "", <<>>),
   Request(CatTask, ContentA, <<>>, TRUE, "", TtlDay),
   Request(CatNote, ContentC, <<TagX>>, FALSE, "high", TtlDay)}

OptDefault == QueryOptions(<<>>, <<>>, DefaultSearchLimit, FALSE, TRUE, FALSE)
OptTaskOne == QueryOptions(CatTask, <<>>, 1, TRUE, TRUE, FALSE)
OptTagged == QueryOptions(<<>>, <<<<"X">>>>, DefaultSearchLimit, FALSE, FALSE, FALSE)
LifeSearches ==
  {[query |-> QueryA, options |-> OptDefault],
   [query |-> QueryA, options |-> OptTaskOne],
   [query |-> QueryC, options |-> OptTagged]}

NextLife ==
  \/ \E r \in LifeRequests :
       Remember(r.category, r.content, r.tags, r.global, r.priority, r.ttl)
  \/ Tick
  \/ \E s \in LifeSearches : Search(s.query, s.options)
  \/ RecallRecent(OptDefault)
  \/ RecallByCategory(CatTask, OptDefault)

SpecLife == Init /\ [][NextLife]_vars

\* the filters of a query, as the options state them
InCategory(e, o) == o.category = <<>> \/ e.category = o.category
InScope(e, o, proj) ==
  \/ o.allProjects
  \/ IF e.projectId = <<>> THEN o.includeGlobal ELSE e.projectId = proj
HasTag(e, o) ==
  \/ o.tags = <<>>
  \/ \E i \in 1..Len(o.tags) : \E j \in 1..Len(e.tags) : e.tags[j] = toLowerCase(o.tags[i])
\* expiresAt is set and strictly earlier than time t
Past(e, t) == e.expiresAt # {} /\ \A x \in e.expiresAt : x < t

\* for every candidate: shown exactly when it is not past its expiry
HiddenWhenPast(ans, candidates, t) ==
  \A i \in 1..Len(candidates) : Shown(ans, candidates[i]) <=> ~Past(candidates[i], t)

\* C6: search, recall-by-category and recall-recent leave an entry out
\* exactly when its expiresAt is set and strictly earlier than the current
\* time (of the entries the other filters admit, the limit not below their
\* number), and the passing of time changes neither the index nor the
\* content store.
ExpiryContract ==
  [][/\ (last'.op = "search" /\ Search(last'.arg.query, last'.arg.options)
           /\ Len(index) <= last'.arg.options.limit) =>
          HiddenWhenPast(last',
            SelectSeq(index, LAMBDA e : /\ InCategory(e, last'.arg.options)
                                        /\ InScope(e, last'.arg.options, project)
                                        /\ HasTag(e, last'.arg.options)
                                        /\ Score(e, last'.arg.query) > 0),
            now)
     /\ (last'.op = "recall-category" /\ RecallByCategory(CatTask, last'.arg.options)) =>
          HiddenWhenPast(last',
            SelectSeq(index, LAMBDA e : /\ e.category = CatTask
                                        /\ InScope(e, last'.arg.options, project)),
            now)
     /\ (last'.op = "recall-recent" /\ RecallRecent(last'.arg.options)
           /\ Len(index) <= last'.arg.options.limit) =>
          HiddenWhenPast(last',
            SelectSeq(index, LAMBDA e : InScope(e, last'.arg.options, project)), now)
     /\ now' # now => index' = index /\ files' = files]_vars

\* a recall at time 2 has left out the entry that expired at 1 and returned
\* the entry that expires at 2; the blob of the expired entry is still stored
ExpiryWitness ==
  /\ last.op = "recall-recent"
  /\ last.arg.options = OptDefault
  /\ now = 2
  /\ Len(index) = 2
  /\ index[1].expiresAt = {1}
  /\ index[2].expiresAt = {2}
  /\ last.out = <<index[2].id>>
  /\ index[1].path \in DOMAIN files

PositionOf(entries, id) == First(Positions(entries, id))

\* position i of the index ranks before position j for this query
RanksBefore(i, j, q) ==
  \/ Score(index[i], q) > Score(index[j], q)
  \/ Score(index[i], q) = Score(index[j], q) /\ i < j

\* the positions of the entries that pass the filters with a positive score
Qualifying(q, o) ==
  {i \in 1..Len(index) : /\ InCategory(index[i], o)
                         /\ InScope(index[i], o, project)
                         /\ ~Past(index[i], now)
                         /\ HasTag(index[i], o)
                         /\ Score(index[i], q) > 0}

SearchRight(ans, q, o) ==
  LET at == [k \in 1..Len(ans.out) |-> PositionOf(index, ans.out[k])]
  IN /\ \A k \in 1..Len(ans.out) : Positions(index, ans.out[k]) # {}
     /\ \A k \in 1..Len(ans.out) : at[k] \in Qualifying(q, o)
     /\ Len(ans.out) = Min(o.limit, Cardinality(Qualifying(q, o)))
     /\ \A k \in 1..Len(ans.out) : \A l \in (k + 1)..Len(ans.out) : RanksBefore(at[k], at[l], q)
     /\ \A i \in Qualifying(q, o) :
          (\A k \in 1..Len(ans.out) : at[k] # i) =>
            \A k \in 1..Len(ans.out) : RanksBefore(at[k], i, q)
     /\ \A k \in 1..Len(ans.loaded) : \E l \in 1..Len(ans.out) : ans.loaded[k] = ans.out[l]

\* C7: searchMemories returns exactly the entries that pass the category,
\* scope, expiry and tag filters with a final score above 0, in descending
\* score, equal scores in index order, cut to the first limit entries, and
\* loads full content for returned entries only.
SearchContract ==
  [][(last'.op = "search" /\ Search(last'.arg.query, last'.arg.options)) =>
       SearchRight(last', last'.arg.query, last'.arg.options)]_vars

\* a search cut to one result returned the first of two entries of equal
\* positive score and loaded that one only
SearchWitness ==
  /\ last.op = "search"
  /\ last.arg.options = OptTaskOne
  /\ last.arg.query = QueryA
  /\ Len(index) = 2
  /\ Score(index[1], QueryA) = Score(index[2], QueryA)
  /\ Score(index[1], QueryA) > 0
  /\ ~Past(index[2], now)
  /\ last.out = <<index[1].id>>
  /\ last.loaded = <<index[1].id>>

(***************************************************************************)
(* SpecCleanup: memories with and without a time-to-live, cleaned up as    *)
(* time passes.                                                            *)
(***************************************************************************)
NextCleanup ==
  \/ \E r \in LifeRequests :
       Remember(r.category, r.content, r.tags, r.global, r.priority, r.ttl)
  \/ Tick
  \/ \E d \in BOOLEAN : Cleanup(d)
  \/ CleanupUnder(FALSE, {<<"a", "b">>})

SpecCleanup == Init /\ [][NextCleanup]_vars

\* C10: cleanup without dryRun removes the index entry and the content blob
\* of exactly the entries expired at the call and leaves every other entry
\* and every other entry's blob as it was; with dryRun it changes nothing
\* and reports exactly the expired entries.
CleanupContract ==
  [][/\ (last'.op = "cleanup" /\ Cleanup(FALSE)) =>
          /\ index' = SelectSeq(index, LAMBDA e : ~Past(e, now))
          /\ \A i \in 1..Len(index) :
               IF Past(index[i], now)
               THEN index[i].path \notin DOMAIN files'
               ELSE index[i].path \in DOMAIN files =>
                      /\ index[i].path \in DOMAIN files'
                      /\ files'[index[i].path] = files[index[i].path]
     /\ (last'.op = "cleanup-dry" /\ Cleanup(TRUE)) =>
          /\ index' = index
          /\ files' = files
          /\ last'.out = IdsOf(SelectSeq(index, LAMBDA e : Past(e, now)))]_vars

(***************************************************************************)
(* SpecRank: titles and bodies of several priorities, searched by phrase.  *)
(***************************************************************************)
NextRank ==
  \/ \E t \in {ContentPhrase, ContentWords}, p \in {"", "high", "low"} :
       Remember(CatTask, t, <<>>, FALSE, p, <<>>)
  \/ \E q \in {QueryPhrase, QueryAB} : Search(q, OptDefault)

SpecRank == Init /\ [][NextRank]_vars

\* the title holds the query as a phrase
TitleHasPhrase(e, q) == includes(toLowerCase(e.title), toLowerCase(q))

\* the entry matches by words of the query in its snippet and in no other way
SnippetWordsOnly(e, q) ==
  /\ calculateScore(e.title, q) = 0
  /\ calculateScore(join(e.tags), q) = 0
  /\ ~includes(toLowerCase(e.category), toLowerCase(q))
  /\ ~includes(toLowerCase(e.snippet), toLowerCase(q))
  /\ calculateScore(e.snippet, q) > 0

PriorityRank(e) == IF e.priority = "high" THEN 3 ELSE IF e.priority = "low" THEN 1 ELSE 2

\* entry i is in the answer, before entry j if that one is in it, and has the
\* greater score
StrictlyAbove(ans, i, j, q) ==
  /\ Score(index[i], q) > Score(index[j], q)
  /\ \E k \in 1..Len(ans.out) :
       /\ ans.out[k] = index[i].id
       /\ \A l \in 1..Len(ans.out) : ans.out[l] = index[j].id => k < l

\* of equal raw score, a high-priority entry ranks strictly above a normal one
HighAboveNormal(ans, q) ==
  \A i \in 1..Len(index), j \in 1..Len(index) :
    (/\ index[i].priority = "high"
     /\ index[j].priority = "normal"
     /\ RawScore(index[i], q) = RawScore(index[j], q)) => StrictlyAbove(ans, i, j, q)

\* C8 as stated: in every search, an entry whose title holds the query
\* phrase ranks strictly above any entry whose only match is some of the
\* query words in its snippet, and of two entries of equal raw score a
\* high-priority one ranks strictly above a normal-priority one.
PhraseOutranksWords ==
  [][(last'.op = "search" /\ Search(last'.arg.query, OptDefault)) =>
       /\ \A i \in 1..Len(index), j \in 1..Len(index) :
            (TitleHasPhrase(index[i], last'.arg.query)
               /\ SnippetWordsOnly(index[j], last'.arg.query)) =>
              StrictlyAbove(last', i, j, last'.arg.query)
       /\ HighAboveNormal(last', last'.arg.query)]_vars

\* C8, amended: the same, for a title-phrase entry whose priority is not
\* lower than that of the snippet-words entry.
PhraseOutranksWordsOfNoHigherPriority ==
  [][(last'.op = "search" /\ Search(last'.arg.query, OptDefault)) =>
       /\ \A i \in 1..Len(index), j \in 1..Len(index) :
            (/\ TitleHasPhrase(index[i], last'.arg.query)
             /\ SnippetWordsOnly(index[j], last'.arg.query)
             /\ PriorityRank(index[i]) >= PriorityRank(index[j])) =>
              StrictlyAbove(last', i, j, last'.arg.query)
       /\ HighAboveNormal(last', last'.arg.query)]_vars

\* a search has ranked a title-phrase entry, stored second, above a
\* snippet-words entry of the same priority
RankWitness ==
  /\ last.op = "search"
  /\ last.arg.query = QueryPhrase
  /\ Len(index) = 2
  /\ SnippetWordsOnly(index[1], QueryPhrase)
  /\ TitleHasPhrase(index[2], QueryPhrase)
  /\ index[1].priority = "low"
  /\ index[2].priority = "low"
  /\ last.out = <<index[2].id, index[1].id>>

(***************************************************************************)
(* SpecRemember: remember requests with every kind of ttl and priority.    *)
(***************************************************************************)
TtlInputs == {<<>>, TtlDay, <<"1", "D">>, <<"1", "x">>, <<"d">>}
PriorityInputs == {"", "high", "urgent"}

NextRemember ==
  \/ \E p \in PriorityInputs, ttl \in TtlInputs :
       Remember(CatTask, ContentA, <<>>, FALSE, p, ttl)
  \/ \E p \in PriorityInputs, ttl \in TtlInputs :
       MemoryRemember(CatTask, ContentA, <<>>, FALSE, p, ttl)

SpecRemember == Init /\ [][NextRemember]_vars

\* digits, at least one, and then one of the unit letters
HasTtlForm(ttl, units) ==
  /\ Len(ttl) >= 2
  /\ ttl[Len(ttl)] \in units
  /\ \A i \in 1..(Len(ttl) - 1) : ttl[i] \in Digits

\* a remember step with the ttl and priority that its answer records
RememberStep ==
  \/ /\ last'.op = "remember"
     /\ Remember(CatTask, ContentA, <<>>, FALSE, last'.arg.priority, last'.arg.ttl)
  \/ /\ last'.op = "memory_remember"
     /\ MemoryRemember(CatTask, ContentA, <<>>, FALSE, last'.arg.priority, last'.arg.ttl)

BadPriority(priority) == priority # "" /\ priority \notin {"high", "normal", "low"}

BatchRequests ==
  {Request(CatTask, ContentA, <<TagX>>, FALSE, "", <<>>),
   Request(CatTask, ContentA, <<>>, FALSE, "", TtlDay)}

\* the memory the storage may fail on
BrokenIds == {<<"a", "a">>}

Run(dryRun, broken) == [dryRun |-> dryRun, broken |-> broken]
TagRuns == {Run("true", {}), Run("false", BrokenIds)}
UntagRuns == {Run("true", {}), Run("false", {})}

NoFilters == BulkFilters(<<>>, FALSE, FALSE, <<>>)
OnlyExpired == BulkFilters(<<>>, TRUE, FALSE, <<>>)
OnlyStale == BulkFilters(<<>>, FALSE, TRUE, <<>>)
OnlyQuery == BulkFilters(<<>>, FALSE, FALSE, QueryA)
OnlyCategory == BulkFilters(CatTask, FALSE, FALSE, <<>>)
ExpiredAndQuery == BulkFilters(<<>>, TRUE, FALSE, QueryA)

BulkRequest(f, run) == [filters |-> f, run |-> run]

\* the bulk deletes asked of memory_bulk_delete
BulkInputs ==
  {BulkRequest(NoFilters, Run("false", {})),
   BulkRequest(OnlyExpired, Run("false", {})),
   BulkRequest(OnlyStale, Run("true", {})),
   BulkRequest(OnlyQuery, Run("false", BrokenIds)),
   BulkRequest(OnlyCategory, Run("true", {})),
   BulkRequest(OnlyCategory, Run("unset", {})),
   BulkRequest(ExpiredAndQuery, Run("true", {}))}

\* the bulk deletes asked of batch_delete
BatchDeleteInputs ==
  {BulkRequest(NoFilters, Run("false", {})),
   BulkRequest(OnlyCategory, Run("unset", {}))}

NextBatch ==
  \/ \E r \in BatchRequests :
       Remember(r.category, r.content, r.tags, r.global, r.priority, r.ttl)
  \/ Wait(StaleDays + 1)
  \/ \E run \in TagRuns : MemoryTag(TagX, QueryA, <<>>, run.dryRun, run.broken)
  \/ \E run \in UntagRuns : MemoryUntag(TagX, <<>>, CatTask, run.dryRun, run.broken)
  \/ \E r \in {[operation |-> "add", dryRun |-> "unset"],
               [operation |-> "remove", dryRun |-> "true"]} :
       BatchTag(TagX, r.operation, <<>>, <<>>, r.dryRun, {})
  \/ \E r \in BulkInputs : MemoryBulkDelete(r.filters, r.run.dryRun, r.run.broken)
  \/ \E r \in BatchDeleteInputs : BatchDelete(r.filters, r.run.dryRun, r.run.broken)

SpecBatch == Init /\ [][NextBatch]_vars

ItemIds(st) == [i \in 1..Len(st.items) |-> st.items[i].id]

\* the step is the request its answer records
TagStep ==
  \/ /\ last'.op = "memory_tag"
     /\ MemoryTag(last'.arg.tag, last'.arg.query, last'.arg.category,
                  last'.arg.dryRun, last'.arg.broken)
  \/ /\ last'.op = "batch_tag"
     /\ last'.arg.operation = "add"
     /\ BatchTag(last'.arg.tag, "add", last'.arg.query, last'.arg.category,
                 last'.arg.dryRun, last'.arg.broken)

UntagStep ==
  \/ /\ last'.op = "memory_untag"
     /\ MemoryUntag(last'.arg.tag, last'.arg.query, last'.arg.category,
                    last'.arg.dryRun, last'.arg.broken)
  \/ /\ last'.op = "batch_tag"
     /\ last'.arg.operation # "add"
     /\ BatchTag(last'.arg.tag, last'.arg.operation, last'.arg.query,
                 last'.arg.category, last'.arg.dryRun, last'.arg.broken)

BulkStep ==
  \/ /\ last'.op = "memory_bulk_delete"
     /\ MemoryBulkDelete(last'.arg.filters, last'.arg.dryRun, last'.arg.broken)
  \/ /\ last'.op = "batch_delete"
     /\ BatchDelete(last'.arg.filters, last'.arg.dryRun, last'.arg.broken)

\* the storage failures a following call may meet
Failures == {{}, BrokenIds}

\* C11: for addTag, removeTag and bulkDelete, a call with dryRun true reports
\* exactly the entries that the same call with dryRun false, made right after
\* it, processes, and the dry run changes neither the index nor any blob.
DryRunContract ==
  [][/\ (TagStep /\ last'.arg.dryRun = "true") =>
          /\ index' = index /\ files' = files
          /\ \A b \in Failures :
               last'.out = ItemIds(batchAddTag(index', files', last'.arg.tag,
                             last'.arg.query, last'.arg.category, FALSE, b))
     /\ (UntagStep /\ last'.arg.dryRun = "true") =>
          /\ index' = index /\ files' = files
          /\ \A b \in Failures :
               last'.out = ItemIds(batchRemoveTag(index', files', last'.arg.tag,
                             last'.arg.query, last'.arg.category, FALSE, b))
     /\ (BulkStep /\ last'.ok /\ last'.arg.dryRun = "true") =>
          /\ index' = index /\ files' = files
          /\ \A b \in Failures :
               last'.out = ItemIds(bulkDelete(index', files', last'.arg.filters,
                                              FALSE, b))]_vars

\* a dry run of a bulk delete by category has reported both memories of the
\* category, and both are in the index and the store still
DryRunWitness ==
  /\ last.op = "memory_bulk_delete"
  /\ last.ok
  /\ last.arg.dryRun = "true"
  /\ last.arg.filters.category = CatTask
  /\ Len(index) = 2
  /\ last.out = IdsOf(index)
  /\ \A i \in 1..2 : index[i].path \in DOMAIN files

\* the filters of a bulk delete, as the request states them
Filtered(e, f) ==
  /\ f.category = <<>> \/ e.category = f.category
  /\ f.expired => Past(e, now)
  /\ f.stale => (e.expiresAt = {} /\ now - e.updated > StaleDays * DayLen)
  /\ f.query # <<>> => Score(e, f.query) > 0

\* C12: bulkDelete selects exactly the index entries that satisfy every
\* filter supplied: of the category, expired when expired is set, stale when
\* stale is set, matching the query when a query is set; with expired and a
\* query both set, the expired entries that match the query.
BulkSelectsIntersection ==
  [][(BulkStep /\ last'.ok) =>
       last'.out = IdsOf(SelectSeq(index, LAMBDA e : Filtered(e, last'.arg.filters)))]_vars

\* C13: a bulk delete request with none of category, expired, stale and
\* query is rejected and deletes nothing, through memory_bulk_delete and
\* through batch_delete.
NoFilterRejected ==
  [][(BulkStep /\ last'.arg.filters = BulkFilters(<<>>, FALSE, FALSE, <<>>)) =>
       /\ ~last'.ok
       /\ index' = index
       /\ files' = files]_vars

\* a bulk delete without filters and with dryRun false was rejected, and the
\* two memories stored are stored still
NoFilterWitness ==
  /\ last.op = "batch_delete"
  /\ last.arg.filters = BulkFilters(<<>>, FALSE, FALSE, <<>>)
  /\ last.arg.dryRun = "false"
  /\ ~last.ok
  /\ Len(index) = 2
  /\ \A i \in 1..2 : index[i].path \in DOMAIN files

\* C14: a bulk delete request that does not say dryRun behaves as dryRun
\* true: it reports the matching entries and removes no index entry and no
\* blob.
UnsetDryRunPreviews ==
  [][(BulkStep /\ last'.ok /\ last'.arg.dryRun = "unset") =>
       /\ index' = index
       /\ files' = files
       /\ last'.out = IdsOf(BulkEntries(index, files, last'.arg.filters))]_vars

\* the report of a batch over the selected entries: every entry has its
\* item, in order, and the counters add up
ReportRight(ans, selected) ==
  /\ ans.out = IdsOf(selected)
  /\ ans.report.processed = Len(selected)
  /\ Len(ans.report.items) = Len(selected)
  /\ ans.report.processed = ans.report.succeeded + ans.report.failed
  /\ ans.report.failed =
       Cardinality({i \in 1..Len(ans.report.items) : ~ans.report.items[i].success})

HasBlob(e) == e.path \in DOMAIN files

\* the tags the entry of this id has in an index
TagsIn(entries, id) == entries[PositionOf(entries, id)].tags

\* every entry of a tag operation either failed, with the failure in its
\* item, or has the tags wanted; needsWrite tells the entries to rewrite
TaggedEach(ans, selected, needsWrite(_), wanted(_)) ==
  \A i \in 1..Len(selected) :
    LET e == selected[i]
        item == ans.report.items[i]
    IN /\ item.id = e.id
       /\ IF ~needsWrite(e) THEN item.success
          ELSE /\ item.success <=> (e.id \notin ans.arg.broken /\ HasBlob(e))
               /\ item.success => wanted(e)

\* C20: in addTag, removeTag and bulkDelete a failure on one selected entry,
\* thrown or returned, is recorded in that entry's item and every remaining
\* entry is still processed; the report has processed = succeeded + failed =
\* number of items.
BatchCompletes ==
  [][/\ (TagStep /\ last'.arg.dryRun # "true") =>
          LET selected == BatchEntries(index, files, last'.arg.query, last'.arg.category)
          IN /\ ReportRight(last', selected)
             /\ TaggedEach(last', selected,
                           LAMBDA e : ~IncludesTag(e.tags, last'.arg.tag),
                           LAMBDA e : IncludesTag(TagsIn(index', e.id), last'.arg.tag))
     /\ (UntagStep /\ last'.arg.dryRun # "true") =>
          LET selected == SelectSeq(BatchEntries(index, files, last'.arg.query,
                                                 last'.arg.category),
                                    LAMBDA e : IncludesTag(e.tags, last'.arg.tag))
          IN /\ ReportRight(last', selected)
             /\ TaggedEach(last', selected, LAMBDA e : TRUE,
                           LAMBDA e : ~IncludesTag(TagsIn(index', e.id), last'.arg.tag))
     /\ (/\ BulkStep
         /\ last'.ok
         /\ \/ last'.op = "memory_bulk_delete" /\ last'.arg.dryRun # "true"
            \/ last'.op = "batch_delete" /\ last'.arg.dryRun = "false") =>
          LET selected == BulkEntries(index, files, last'.arg.filters)
          IN /\ ReportRight(last', selected)
             /\ \A i \in 1..Len(selected) :
                  LET item == last'.report.items[i]
                  IN /\ item.success <=> selected[i].id \notin last'.arg.broken
                     /\ item.success <=> Positions(index', selected[i].id) = {}]_vars

\* a tag operation met a storage failure on its first entry, recorded it and
\* went on to tag the second
BatchWitness ==
  /\ last.op = "memory_tag"
  /\ last.arg.dryRun = "false"
  /\ last.arg.broken = BrokenIds
  /\ Len(index) = 2
  /\ last.out = IdsOf(index)
  /\ last.report.failed = 1
  /\ last.report.succeeded = 1
  /\ ~last.report.items[1].success
  /\ index[1].tags = <<>>
  /\ index[2].tags = <<TagX>>

(***************************************************************************)
(* SpecGraph: three stored memories, linked, unlinked, merged, retagged    *)
(* and forgotten.                                                          *)
(***************************************************************************)
GraphRequest(category, content, tags) ==
  [category |-> category, content |-> content, tags |-> tags]

TagY == <<"y">>

\* the three memories stored: of three titles, or two of one title
GraphStores ==
  {<<GraphRequest(CatTask, ContentA, <<TagX>>), GraphRequest(CatTask, ContentC, <<TagY>>),
     GraphRequest(CatNote, ContentA, <<>>)>>,
   <<GraphRequest(CatTask, ContentA, <<TagX>>), GraphRequest(CatTask, ContentA, <<TagY>>),
     GraphRequest(CatNote, ContentA, <<>>)>>}

\* the store after createMemory for each of the requests, with these ids
RECURSIVE Created(_, _, _)
Created(requests, ids, st) ==
  IF requests = <<>> THEN st
  ELSE LET q == Head(requests)
           r == createMemory(st.index, st.files, Head(ids), q.category, q.content,
                             q.tags, [global |-> FALSE, priority |-> "", ttl |-> <<>>])
       IN Created(Tail(requests), Tail(ids), [index |-> r.index, files |-> r.files])

InitGraph ==
  /\ now = 0
  /\ project = ProjA
  /\ used = Ids
  /\ returned = {}
  /\ pending = [c \in Callers |-> Idle]
  /\ last = Answer("init", <<>>, TRUE, <<>>)
  /\ \E g \in GraphStores :
       LET st == Created(g, <<<<"a", "a">>, <<"a", "b">>, <<"b", "a">>>>,
                         [index |-> <<>>, files |-> NoFiles])
       IN index = st.index /\ files = st.files

\* a link or unlink of two id strings
LinkRequest(id1, id2, unlink) == [id1 |-> id1, id2 |-> id2, unlink |-> unlink]

\* the links asked for: by a prefix of two ids, by a whole id, by a prefix
\* of one id, and of a memory to itself
LinkInputs ==
  {LinkRequest(<<"a">>, <<"b">>, FALSE), LinkRequest(<<"a">>, <<"b">>, TRUE),
   LinkRequest(<<"a", "b">>, <<"b">>, FALSE), LinkRequest(<<"a", "b">>, <<"b">>, TRUE),
   LinkRequest(<<"a">>, <<"a", "b">>, FALSE),
   LinkRequest(<<"b">>, <<"b">>, FALSE)}

MergeInputs ==
  {<<<<"a", "a">>, <<"a", "b">>>>,
   <<<<"b">>, <<"a">>>>,
   <<<<"a", "b">>, <<"b", "a">>>>,
   <<<<"a", "a">>, <<"a", "b">>, <<"b", "a">>>>,
   <<<<"a", "a">>>>}

NextGraph ==
  \/ \E q \in LinkInputs : Link(q.id1, q.id2, q.unlink)
  \/ \E ids \in MergeInputs : Merge(ids)
  \/ \E id \in {<<"a">>, <<"b">>} : ForgetMemory(id)
  \/ Update(<<"b">>, <<>>, TRUE, <<TagX>>)
  \/ \E id \in {<<"a">>, <<"b">>} : Related(id)

SpecGraph == InitGraph /\ [][NextGraph]_vars

\* the first memory's relatedTo holds the second's id
RelatesTo(id1, id2) == Contains(RelatedOf(index, id1), id2)

\* C15: for any two existing memories A and B, A's relatedTo contains B's id
\* if and only if B's relatedTo contains A's id, after any sequence of link,
\* unlink, update, merge and delete.
RelationSymmetric ==
  \A i, j \in 1..Len(index) :
    i # j => (Contains(index[i].relatedTo, index[j].id)
                <=> Contains(index[j].relatedTo, index[i].id))

\* the relatedTo of every entry, in index order
Relations(idx) == [i \in 1..Len(idx) |-> idx[i].relatedTo]

\* how often a list holds this id
Times(seq, x) == Cardinality({i \in 1..Len(seq) : seq[i] = x})

\* the step is the link its answer records
LinkStep == last'.op = "link" /\ Link(last'.arg[1], last'.arg[2], FALSE)

MergeStep == last'.op = "merge" /\ Merge(last'.arg)

\* the elements of a list
SetOf(seq) == {seq[i] : i \in 1..Len(seq)}

\* the tags of all entries of these ids
TagsOfAll(idx, ids) ==
  UNION {SetOf(idx[findIndexById(idx, ids[i])].tags) : i \in 1..Len(ids)}

\* the ids of the entries that are not among these ids
Outside(idx, ids) == SelectSeq(IdsOf(idx), LAMBDA id : ~Contains(ids, id))

\* C17: after a successful merge of N >= 2 memories the first id is still a
\* memory, with its id and with the union of all inputs' tags; none of the
\* other ids is in the index or resolves to a memory; and the memories
\* outside ids are the ones there were, unchanged.
MergeKeepsBase ==
  [][(MergeStep /\ last'.ok) =>
       LET ids == last'.out
           base == ids[1]
           after == getMemory(index', files', base)
       IN /\ Len(ids) >= 2
          /\ after.id = base
          /\ SetOf(after.tags) = TagsOfAll(index, ids)
          /\ SetOf(index'[findIndexById(index', base)].tags) = TagsOfAll(index, ids)
          /\ \A k \in 2..Len(ids) :
                /\ findIndexById(index', ids[k]) = 0
                /\ getMemory(index', files', ids[k]) = NoMemory
          /\ Outside(index', ids) = Outside(index, ids)
          /\ \A k \in 1..Len(index) :
                ~Contains(ids, index[k].id) =>
                  getMemory(index', files', index[k].id) = getMemory(index, files, index[k].id)]_vars

\* the ids the memories of these ids relate to
RelatedOfAll(idx, ids) == UNION {SetOf(RelatedOf(idx, ids[i])) : i \in 1..Len(ids)}

ResolvesToMemory(s) ==
  /\ findMatch(index, s) # 0
  /\ index[findMatch(index, s)].path \in DOMAIN files

\* the positions of the id strings that resolve to memories
Resolving(ids) == {k \in 1..Len(ids) : ResolvesToMemory(ids[k])}

\* C19: a merge of ids of which fewer than 2 resolve to memories fails, and
\* the index and every content blob are as they were.
MergeNeedsTwo ==
  [][(MergeStep /\ Cardinality(Resolving(last'.arg)) < 2) =>
       /\ ~last'.ok
       /\ index' = index
       /\ files' = files]_vars

\* a merge of two ids has failed: both match index entries, and the blob of
\* one of them is missing
MergeWitness ==
  /\ last.op = "merge"
  /\ ~last.ok
  /\ Len(last.arg) = 2
  /\ \A k \in 1..2 : findMatch(index, last.arg[k]) # 0
  /\ Cardinality(Resolving(last.arg)) = 1

(***************************************************************************)
(* Paths, update, tags: further properties of the repository.              *)
(***************************************************************************)
\* C28: no two index entries share a storage path, so no memory's content
\* blob is another memory's, also for memories of one category, creation
\* date and title slug.
NoSharedPath ==
  \A i, j \in 1..Len(index) : i # j => index[i].path # index[j].path

\* memories with and without priority, scope and expiry, updated as time passes
NextUpdate ==
  \/ \E r \in {q \in LifeRequests : ~q.global} :
       Remember(r.category, r.content, r.tags, r.global, r.priority, r.ttl)
  \/ Tick
  \/ \E u \in UpdateInputs : Update(<<"a">>, u.content, u.hasTags, u.tags)

SpecUpdate == Init /\ [][NextUpdate]_vars

\* the step is the update its answer records
UpdateStep ==
  /\ last'.op = "update"
  /\ \E u \in UpdateInputs : Update(last'.arg, u.content, u.hasTags, u.tags)

\* the fields of an index entry that an update leaves alone
Kept(e) ==
  [id |-> e.id, created |-> e.created, category |-> e.category, path |-> e.path,
   projectId |-> e.projectId, priority |-> e.priority, expiresAt |-> e.expiresAt]

\* C23: an update of content or tags leaves the memory's id, created,
\* category, path, projectId, priority and expiresAt as they were, in the
\* index entry and in the blob, and sets updated to the time of the update
\* in both, so updated does not decrease and is not before created.
UpdateFrame ==
  [][(UpdateStep /\ last'.ok) =>
       LET i == findIndexById(index, last'.out[1])
           before == index[i]
           after == index'[i]
           old == files[before.path]
           new == files'[before.path]
       IN /\ Len(index') = Len(index)
          /\ Kept(after) = Kept(before)
          /\ new.id = old.id /\ new.created = old.created /\ new.category = old.category
          /\ after.updated = now /\ new.updated = now
          /\ after.updated >= before.updated /\ new.updated >= old.updated
          /\ after.updated >= after.created /\ new.updated >= new.created]_vars

\* a high-priority memory with an expiry has been updated after the day it
\* was created
UpdateWitness ==
  /\ last.op = "update"
  /\ last.ok
  /\ LET e == index[findIndexById(index, last.out[1])]
     IN /\ e.priority = "high"
        /\ e.expiresAt # {}
        /\ e.updated > e.created
        /\ files[e.path].updated = e.updated

\* memories without the tag, with it, and with it twice, tagged and untagged
\* as time passes
NextTag ==
  \/ \E tags \in {<<>>, <<TagX>>, <<TagX, TagX>>} :
       Remember(CatTask, ContentA, tags, FALSE, "", <<>>)
  \/ Tick
  \/ MemoryTag(TagX, <<>>, CatTask, "false", {})
  \/ MemoryUntag(TagX, QueryA, <<>>, "unset", {})

SpecTag == Init /\ [][NextTag]_vars

\* the entry of this id in an index
EntryIn(entries, id) == entries[PositionOf(entries, id)]

\* C24: after an addTag that is no dry run and reports no failure, every
\* selected entry bears the tag exactly once and the entries that bore it
\* already are unchanged, updated included; after such a removeTag no
\* selected entry bears the tag, and the entries that did not bear it are
\* unchanged and not in the report.
TagContract ==
  [][/\ (TagStep /\ last'.arg.dryRun # "true" /\ last'.report.failed = 0) =>
          \A e \in SetOf(BatchEntries(index, files, last'.arg.query, last'.arg.category)) :
            /\ Times(TagsIn(index', e.id), last'.arg.tag) = 1
            /\ IncludesTag(e.tags, last'.arg.tag) => EntryIn(index', e.id) = e
     /\ (UntagStep /\ last'.arg.dryRun # "true" /\ last'.report.failed = 0) =>
          \A e \in SetOf(BatchEntries(index, files, last'.arg.query, last'.arg.category)) :
            /\ ~IncludesTag(TagsIn(index', e.id), last'.arg.tag)
            /\ ~IncludesTag(e.tags, last'.arg.tag) =>
                 /\ EntryIn(index', e.id) = e
                 /\ ~Contains(last'.out, e.id)]_vars

(***************************************************************************)
(* SpecList: memories of two projects, with and without expiry, listed.    *)
(***************************************************************************)
NextList ==
  \/ \E r \in {q \in LifeRequests : q.category = CatTask} :
       Remember(r.category, r.content, r.tags, r.global, r.priority, r.ttl)
  \/ Tick
  \/ \E p \in {ProjA, ProjB} : ChangeDirectory(p)
  \/ \E projectOnly \in BOOLEAN : List(<<>>, projectOnly, <<>>)
  \/ List(CatTask, FALSE, ProjA)
  \/ ReadList

SpecList == Init /\ [][NextList]_vars

\* the step is the listing its answer records
ListStep ==
  \/ /\ last'.op = "list"
     /\ List(last'.arg.category, last'.arg.projectOnly, last'.arg.projectId)
  \/ last'.op = "memory://list" /\ ReadList

\* the entry of this id is of a project that is neither the caller's nor
\* the one asked for
OtherProject(id, asked) ==
  LET e == EntryIn(index, id)
  IN e.projectId # <<>> /\ e.projectId # project /\ e.projectId # asked

\* C22: the list command and the memory://list resource, like the searches
\* and recalls, report no entry that is past its expiry and no entry of
\* another project than the caller's, unless that project is asked for.
ListingsScoped ==
  [][ListStep =>
       \A k \in 1..Len(last'.out) :
         /\ ~Past(EntryIn(index, last'.out[k]), now)
         /\ ~OtherProject(last'.out[k],
                          IF last'.op = "list" THEN last'.arg.projectId ELSE <<>>)]_vars

(***************************************************************************)
(* Storage failures.                                                       *)
(***************************************************************************)
\* the step is the cleanup its answer records, no dry run
CleanupStep == last'.op = "cleanup" /\ CleanupUnder(FALSE, last'.arg.broken)

\* C21: in cleanup a failure to delete one expired entry, a storage error
\* included, leaves no other expired entry undeleted, and the count
\* reported is the number of entries deleted.
CleanupCompletes ==
  [][CleanupStep =>
       /\ \A k \in 1..Len(index) :
            (Past(index[k], now) /\ index[k].id \notin last'.arg.broken) =>
              findIndexById(index', index[k].id) = 0
       /\ last'.deleted = Len(index) - Len(index')]_vars

\* the two writes of a mutating repository operation, either of which the
\* storage may fail with an error
Stages == {"blob", "index"}

\* the operation of this answer interrupted by a storage error: thrown by the
\* blob write or unlink, the store is as before; thrown by writeIndex, the
\* blob step of r is done and index.json is as before
Interrupted(op, id, stage, r) ==
  /\ index' = index
  /\ files' = IF stage = "index" THEN r.files ELSE files
  /\ returned' = Unwatch(returned, <<id>>)
  /\ last' = Answer(op, [id |-> id, stage |-> stage], FALSE, <<id>>)
  /\ UNCHANGED <<now, project, pending>>

\* createMemory where the storage throws at this stage
StoreFailing(category, content, stage) ==
  /\ Cardinality(used) < MaxCreates
  /\ \E id \in Ids \ used :
       /\ Interrupted("remember", id, stage,
                      createMemory(index, files, id, category, content, <<>>,
                                   [global |-> FALSE, priority |-> "", ttl |-> <<>>]))
       /\ used' = used \cup {id}

\* updateMemory of an entry with content, where the storage throws at this stage
UpdateFailing(id, content, stage) ==
  /\ getMemory(index, files, id) # NoMemory
  /\ Interrupted("update", id, stage,
                 updateMemory(index, files, id,
                              [hasContent |-> TRUE, content |-> content,
                               hasTags |-> FALSE, tags |-> <<>>]))
  /\ UNCHANGED used

\* deleteMemory of an entry with content, where the storage throws at this stage
ForgetFailing(id, stage) ==
  /\ getMemory(index, files, id) # NoMemory
  /\ Interrupted("forget", id, stage, deleteMemory(index, files, id))
  /\ UNCHANGED used

(***************************************************************************)
(* SpecFault: create, update and delete over a storage that may fail.      *)
(***************************************************************************)
NextFault ==
  \/ \E t \in Contents : Remember(CatTask, t, <<>>, FALSE, "", <<>>)
  \/ \E id \in Ids : Update(id, ContentC, FALSE, <<>>)
  \/ \E id \in Ids : ForgetMemory(id)
  \/ \E stage \in Stages : StoreFailing(CatTask, ContentA, stage)
  \/ \E id \in Ids, stage \in Stages : UpdateFailing(id, ContentC, stage)
  \/ \E id \in Ids, stage \in Stages : ForgetFailing(id, stage)

SpecFault == Init /\ [][NextFault]_vars

\* C29: in every reachable state, those after a storage failure in a create,
\* an update or a delete included, the path of every index entry resolves to
\* a blob of the store.
EveryEntryHasContent == \A k \in 1..Len(index) : HasBlob(index[k])


(***************************************************************************)
(* Relations after a delete.                                               *)
(***************************************************************************)
\* the step is the successful forget its answer records
ForgetStep == last'.op = "forget" /\ last'.ok /\ ForgetMemory(last'.arg)

\* C25: the delete of a memory A modifies no other memory: every other entry
\* is in the index as it was, relatedTo with the id of A included, its
\* content loads as before, and its related memories are those it had
\* before, without A.
DeleteLeavesOthers ==
  [][ForgetStep =>
       \A k \in 1..Len(index) :
         index[k].id # last'.out[1] =>
           /\ Contains(index', index[k])
           /\ getMemory(index', files', index[k].id) = getMemory(index, files, index[k].id)
           /\ getRelatedMemories(index', files', index[k].id) =
                SelectSeq(getRelatedMemories(index, files, index[k].id),
                          LAMBDA m : m.id # last'.out[1])]_vars

(***************************************************************************)
(* SpecMerge: merges whose id list names one memory twice.                 *)
(***************************************************************************)
\* the merges asked for: the base named twice, the base named by a prefix
\* and by its whole id, another memory named twice, and two memories
RepeatedMergeInputs ==
  {<<<<"a", "a">>, <<"a", "a">>>>,
   <<<<"a">>, <<"a", "a">>>>,
   <<<<"b", "a">>, <<"a", "b">>, <<"a", "b">>>>,
   <<<<"a", "b">>, <<"b", "a">>>>}

NextMerge ==
  \/ \E ids \in RepeatedMergeInputs : Merge(ids)
  \/ \E q \in LinkInputs : Link(q.id1, q.id2, q.unlink)
  \/ \E id \in {<<"a">>, <<"b">>} : Related(id)

SpecMerge == InitGraph /\ [][NextMerge]_vars

Depths == {0, 1, 2}

NextSubgraph ==
  \/ \E q \in LinkInputs : Link(q.id1, q.id2, q.unlink)
  \/ \E id \in {<<"a">>, <<"b">>} : ForgetMemory(id)
  \/ Merge(<<<<"a", "b">>, <<"b", "a">>>>)
  \/ \E id \in {<<"a">>, <<"b">>}, d \in Depths : Graph(id, d)

SpecSubgraph == InitGraph /\ [][NextSubgraph]_vars

\* the ids within k hops of the root, through the relatedTo of entries
RECURSIVE Within(_, _, _)
Within(idx, root, k) ==
  IF k = 0 THEN {root}
  ELSE Within(idx, root, k - 1)
         \cup UNION {SetOf(RelatedOf(idx, id)) : id \in Within(idx, root, k - 1)}

\* the entries within k hops of the root
EntriesWithin(idx, root, k) == {id \in Within(idx, root, k) : findIndexById(idx, id) # 0}

\* the number of related ids the entries hold
RECURSIVE RelationCount(_)
RelationCount(idx) ==
  IF idx = <<>> THEN 0 ELSE Len(Head(idx).relatedTo) + RelationCount(Tail(idx))

\* the graph drawn last, of the entries within the depth asked for
Expected == EntriesWithin(index, index[findMatch(index, last.arg.fromId)].id, last.arg.maxDepth)

\* C26: the traversal from a root ends after at most one step for the root
\* and one for each related id held, and renders exactly the entries within
\* maxDepth hops of the root, each as one node, and edges only between
\* rendered nodes that are related.
SubgraphExact ==
  (last.op = "graph" /\ last.ok) =>
     /\ last.steps <= 1 + RelationCount(index)
     /\ SetOf(last.out) = Expected
     /\ Len(last.out) = Cardinality(Expected)
     /\ \A k \in 1..Len(last.edges) :
          /\ last.edges[k][1] \in Expected
          /\ last.edges[k][2] \in Expected
          /\ Contains(RelatedOf(index, last.edges[k][1]), last.edges[k][2])

\* a graph of depth 1 from a root that relates to a memory linked to itself
\* and to a third memory: the root and its neighbour are drawn, the third
\* memory, two hops away, is not
SubgraphWitness ==
  /\ last.op = "graph"
  /\ last.ok
  /\ last.arg.maxDepth = 1
  /\ Len(index) = 3
  /\ Len(last.out) = 2
  /\ Contains(RelatedOf(index, last.out[2]), last.out[2])
  /\ Cardinality(EntriesWithin(index, last.out[1], 2)) = 3

(***************************************************************************)
(* SpecRace: two callers in createMemory, updateMemory and deleteMemory at *)
(* the same time. Each operation is the steps its awaits divide it into:   *)
(* the blob write or unlink, readIndex, and writeIndex.                    *)
(***************************************************************************)
\* what is known of an operation once it has written the index
Summary(p) ==
  [op |-> p.op, id |-> p.id, path |-> p.path, blob |-> p.blob, before |-> p.before,
   clean |-> p.since = {}]

\* what is kept once more than one operation has written the index
Several ==
  [op |-> "several", id |-> <<>>, path |-> <<>>, blob |-> <<>>, before |-> <<>>,
   clean |-> FALSE]

\* the writes of the index since an operation read it, with one more
Noted(since, p) == IF since = {} THEN {Summary(p)} ELSE {Several}

\* the operation has read the index and not yet written it
HasRead(p) ==
  \/ p.stage = "read"
  \/ p.stage = "blob" /\ p.op # "create"

\* createMemory up to its first await: the blob is written
CreateBlob(c, content) ==
  /\ pending[c] = Idle
  /\ Cardinality(used) < MaxCreates
  /\ \E id \in Ids \ used :
       LET r == createMemory(<<>>, files, id, CatTask, content, <<>>,
                             [global |-> FALSE, priority |-> "", ttl |-> <<>>])
       IN /\ files' = r.files
          /\ used' = used \cup {id}
          /\ pending' = [pending EXCEPT ![c] =
                           [op |-> "create", stage |-> "blob", id |-> id,
                            path |-> r.index[1].path, blob |-> r.files[r.index[1].path],
                            before |-> <<>>, version |-> r.index, since |-> {}]]
  /\ UNCHANGED <<index, now, project, returned, last>>

\* createMemory: readIndex, and the entry pushed to the index read
CreateRead(c) ==
  /\ pending[c].op = "create"
  /\ pending[c].stage = "blob"
  /\ pending' = [pending EXCEPT ![c] =
                   [@ EXCEPT !.stage = "read", !.version = index \o @]]
  /\ UNCHANGED <<index, files, now, used, project, returned, last>>

\* updateMemory and deleteMemory up to their first await: readIndex, and
\* the entry found in it
ModifyRead(c, op, id) ==
  /\ pending[c] = Idle
  /\ findIndexById(index, id) # 0
  /\ pending' = [pending EXCEPT ![c] =
                   [op |-> op, stage |-> "read", id |-> id,
                    path |-> index[findIndexById(index, id)].path, blob |-> <<>>,
                    before |-> index[findIndexById(index, id)], version |-> index,
                    since |-> {}]]
  /\ UNCHANGED <<index, files, now, used, project, returned, last>>

\* updateMemory: the blob read and written again with the new content, and
\* the entry replaced in the index read; null when the blob is missing
UpdateBlob(c, content) ==
  /\ pending[c].op = "update"
  /\ pending[c].stage = "read"
  /\ LET r == updateMemory(pending[c].version, files, pending[c].id,
                           [hasContent |-> TRUE, content |-> content,
                            hasTags |-> FALSE, tags |-> <<>>])
     IN /\ files' = r.files
        /\ pending' = [pending EXCEPT ![c] =
                         IF r.ok
                         THEN [@ EXCEPT !.stage = "blob", !.version = r.index,
                                        !.blob = r.files[pending[c].path]]
                         ELSE Idle]
        /\ last' = IF r.ok THEN last
                   ELSE Answer("update", pending[c].id, FALSE, <<pending[c].id>>)
  /\ UNCHANGED <<index, now, used, project, returned>>

\* deleteMemory: the blob unlinked, and the entry spliced out of the index read
DeleteBlob(c) ==
  /\ pending[c].op = "delete"
  /\ pending[c].stage = "read"
  /\ LET r == deleteMemory(pending[c].version, files, pending[c].id)
     IN /\ files' = r.files
        /\ pending' = [pending EXCEPT ![c] = [@ EXCEPT !.stage = "blob", !.version = r.index]]
  /\ UNCHANGED <<index, now, used, project, returned, last>>

\* writeIndex: the index this operation read, with its own change, replaces
\* index.json; the operations that have read the index before are noted
\* to hold an older version
WriteIndex(c) ==
  /\ \/ pending[c].op = "create" /\ pending[c].stage = "read"
     \/ pending[c].op \in {"update", "delete"} /\ pending[c].stage = "blob"
  /\ index' = pending[c].version
  /\ pending' = [d \in Callers |->
                   IF d = c THEN Idle
                   ELSE IF HasRead(pending[d])
                   THEN [pending[d] EXCEPT !.since = Noted(@, pending[c])]
                   ELSE pending[d]]
  /\ last' = Answer(pending[c].op, pending[c].id, TRUE, <<pending[c].id>>)
  /\ UNCHANGED <<files, now, used, project, returned>>

NextRace ==
  \/ \E c \in Callers, t \in Contents : CreateBlob(c, t)
  \/ \E c \in Callers : CreateRead(c)
  \/ \E c \in Callers, op \in {"update", "delete"}, id \in Ids : ModifyRead(c, op, id)
  \/ \E c \in Callers : UpdateBlob(c, ContentC)
  \/ \E c \in Callers : DeleteBlob(c)
  \/ \E c \in Callers : WriteIndex(c)

SpecRace == Init /\ [][NextRace]_vars

\* the caller writes the index while no other operation is under way, one
\* operation has written the index since the caller read it, that one
\* having read what the caller read, and one of the two is a create
RaceStep(c) ==
  /\ WriteIndex(c)
  /\ \A d \in Callers \ {c} : pending[d] = Idle
  /\ Cardinality(pending[c].since) = 1
  /\ \A l \in pending[c].since :
       l.clean /\ (l.op = "create" \/ pending[c].op = "create")

\* the index change of the operation is not in the index
Lost(l, idx) ==
  CASE l.op = "create" -> findIndexById(idx, l.id) = 0
    [] l.op = "update" ->
         findIndexById(idx, l.id) # 0 /\ idx[findIndexById(idx, l.id)] = l.before
    [] l.op = "delete" ->
         findIndexById(idx, l.id) # 0 /\ idx[findIndexById(idx, l.id)] = l.before

\* the blob the operation wrote is in the store; the blob it unlinked is not
Remains(l, fs) ==
  IF l.op = "delete" THEN l.path \notin DOMAIN fs
  ELSE l.path \in DOMAIN fs /\ fs[l.path] = l.blob

\* C27: when two operations, one of them a create, both read the index before
\* either writes it, the index is the second writer's version after the
\* second write: the first writer's index change is lost, the blob it wrote
\* or unlinked is as it left it, and both callers are answered without error.
LastWriterWins ==
  [][\A c \in Callers :
       RaceStep(c) =>
         /\ index' = pending[c].version
         /\ last'.ok
         /\ \A l \in pending[c].since : Lost(l, index') /\ Remains(l, files')]_vars

=============================================================================
